---- MODULE Spec2Model ----
(***************************************************************************)
(* Verification model of the thesis document structure extraction engine.  *)
(*                                                                         *)
(* The line parser with ParseResult (parseThesisContent, ThesisParser.ts)  *)
(* is modelled as a state machine that consumes the input one line per     *)
(* step.  Text is modelled as TLA+ strings and the regular expressions of  *)
(* PARSING_PATTERNS are evaluated character by character.                  *)
(*                                                                         *)
(* The Arabic abstract header of PARSING_PATTERNS.sections.abstractAr is   *)
(* written in Latin transliteration (ArabicAbstractHeader), because module *)
(* strings are restricted to Latin-1.                                      *)
(***************************************************************************)
EXTENDS Integers, Sequences, FiniteSets, TLC

\* ------------------------------------------------------------------------
\* Characters and strings
\* ------------------------------------------------------------------------

\* the i-th character of s, as a one-character string
Ch(s, i) == SubSeq(s, i, i)

\* \s of the regular expressions, String.prototype.trim
IsWs(c) == c \in {" ", "\t", "\n", "\r"}

RECURSIVE WsEnd(_, _)
\* first position at or after i that holds no whitespace (greedy \s*)
WsEnd(s, i) == IF i <= Len(s) /\ IsWs(Ch(s, i)) THEN WsEnd(s, i + 1) ELSE i

RECURSIVE WsStart(_, _)
\* last position at or before i that holds no whitespace, 0 when there is none
WsStart(s, i) == IF i >= 1 /\ IsWs(Ch(s, i)) THEN WsStart(s, i - 1) ELSE i

\* String.prototype.trim
Trim(s) == SubSeq(s, WsEnd(s, 1), WsStart(s, Len(s)))

UpperChars == <<"A","B","C","D","E","F","G","H","I","J","K","L","M","N","O",
                "P","Q","R","S","T","U","V","W","X","Y","Z","É","È","À">>
LowerChars == <<"a","b","c","d","e","f","g","h","i","j","k","l","m","n","o",
                "p","q","r","s","t","u","v","w","x","y","z","é","è","à">>

\* the case folding of the i flag, per character
LowerMap ==
  [c \in {UpperChars[k] : k \in 1..Len(UpperChars)} |->
     LowerChars[CHOOSE k \in 1..Len(UpperChars) : UpperChars[k] = c]]

LowerCh(c) == IF c \in DOMAIN LowerMap THEN LowerMap[c] ELSE c

RECURSIVE Lower(_)
\* case folding of a string; keeps the length, so positions are preserved
Lower(s) == IF s = "" THEN "" ELSE LowerCh(Ch(s, 1)) \o Lower(SubSeq(s, 2, Len(s)))

\* ------------------------------------------------------------------------
\* Regular expressions: a pattern is a sequence of elements
\*   lit  a literal text,  opt  an optional literal (x?),
\*   ws+  \s+,  ws*  \s*,  d+  \d+
\* An alternation is a sequence of patterns, tried in order.
\* ------------------------------------------------------------------------
Lit(t) == [k |-> "lit", s |-> t]
Opt(t) == [k |-> "opt", s |-> t]
WsP    == [k |-> "ws+", s |-> ""]
WsS    == [k |-> "ws*", s |-> ""]
Digits == [k |-> "d+", s |-> ""]

RECURSIVE RunEnd(_, _, _)
\* first position at or after i that holds no character of cs
RunEnd(s, i, cs) == IF i <= Len(s) /\ Ch(s, i) \in cs THEN RunEnd(s, i + 1, cs) ELSE i

\* first position at or after i that holds no digit (greedy \d*)
DigitEnd(s, i) == RunEnd(s, i, {"0","1","2","3","4","5","6","7","8","9"})

\* a position, or the alternative when the position is 0 (no match)
OrElse(pos, other) == IF pos # 0 THEN pos ELSE other

\* the literal t stands at position i of s
Here(s, i, t) == i + Len(t) - 1 <= Len(s) /\ SubSeq(s, i, i + Len(t) - 1) = t

RECURSIVE MatchSeq(_, _, _)
RECURSIVE MatchElem(_, _, _, _)
\* position after the match of pat at position i of s, 0 when it does not match
MatchSeq(s, i, pat) ==
  IF pat = <<>> THEN i ELSE MatchElem(s, i, Head(pat), Tail(pat))

\* a run ending at j that must not be empty, then the rest of the pattern
AfterRun(s, i, j, rest) == IF j > i THEN MatchSeq(s, j, rest) ELSE 0

MatchElem(s, i, e, rest) ==
  CASE e.k = "lit" -> IF Here(s, i, e.s) THEN MatchSeq(s, i + Len(e.s), rest) ELSE 0
    [] e.k = "opt" -> OrElse(IF Here(s, i, e.s) THEN MatchSeq(s, i + Len(e.s), rest) ELSE 0,
                             MatchSeq(s, i, rest))
    [] e.k = "ws+" -> AfterRun(s, i, WsEnd(s, i), rest)
    [] e.k = "ws*" -> MatchSeq(s, WsEnd(s, i), rest)
    [] e.k = "d+"  -> AfterRun(s, i, DigitEnd(s, i), rest)

RECURSIVE MatchAlt(_, _, _)
\* position after the match of the first alternative that matches at i, or 0
MatchAlt(s, i, alts) ==
  IF alts = <<>> THEN 0
  ELSE OrElse(MatchSeq(s, i, Head(alts)), MatchAlt(s, i, Tail(alts)))

NoMatch == [from |-> 0, to |-> 0]

\* the match [from, to), or the alternative when to is 0
Found(from, to, other) == IF to # 0 THEN [from |-> from, to |-> to] ELSE other

RECURSIVE SearchFrom(_, _, _)
\* leftmost match of the alternation at or after position i: [from, to) or NoMatch
SearchFrom(s, i, alts) ==
  IF i > Len(s) + 1 THEN NoMatch
  ELSE Found(i, MatchAlt(s, i, alts), SearchFrom(s, i + 1, alts))

\* RegExp.prototype.test of an unanchored pattern
Test(s, alts) == SearchFrom(s, 1, alts) # NoMatch
\* RegExp.prototype.test of a pattern anchored with ^
TestAt1(s, alts) == MatchAlt(s, 1, alts) # 0

RECURSIVE RemoveAll(_, _, _)
RECURSIVE RemoveFrom(_, _, _, _)
\* String.prototype.replace(/.../g, ''): s without the matches of the
\* alternation; key is s itself, or Lower(s) for a pattern with the i flag
RemoveAll(s, key, alts) == RemoveFrom(s, key, alts, SearchFrom(key, 1, alts))

\* s without the match m and without the matches after it
RemoveFrom(s, key, alts, m) ==
  IF m = NoMatch \/ m.to = m.from THEN s
  ELSE SubSeq(s, 1, m.from - 1)
       \o RemoveAll(SubSeq(s, m.to, Len(s)), SubSeq(key, m.to, Len(key)), alts)

\* s without the match m
CutMatch(s, m) ==
  IF m = NoMatch THEN s ELSE SubSeq(s, 1, m.from - 1) \o SubSeq(s, m.to, Len(s))

\* String.prototype.replace(/.../, ''): s without the first match
RemoveFirst(s, key, alts) == CutMatch(s, SearchFrom(key, 1, alts))

RECURSIVE CollapseWs(_)
\* replace(/\s+/g, ' ')
CollapseWs(s) ==
  IF s = "" THEN ""
  ELSE IF IsWs(Ch(s, 1)) THEN " " \o CollapseWs(SubSeq(s, WsEnd(s, 1), Len(s)))
  ELSE Ch(s, 1) \o CollapseWs(SubSeq(s, 2, Len(s)))

\* characters outside [\w\s\p{L}\p{N}\p{P}]: the symbol classes of Unicode
SymbolChars == {"+", "<", "=", ">", "|", "~", "^", "$"}

RECURSIVE RemoveChars(_, _)
\* s without the characters of the set cs
RemoveChars(s, cs) ==
  IF s = "" THEN ""
  ELSE (IF Ch(s, 1) \in cs THEN "" ELSE Ch(s, 1)) \o RemoveChars(SubSeq(s, 2, Len(s)), cs)

RECURSIVE RemoveRuns(_)
RECURSIVE RemoveRunTo(_, _)
\* replace(/[.:]{2,}/g, '')
RemoveRuns(s) == IF s = "" THEN "" ELSE RemoveRunTo(s, RunEnd(s, 1, {".", ":"}))

\* e is the end of the run of . and : at the start of s
RemoveRunTo(s, e) ==
  IF e >= 3 THEN RemoveRuns(SubSeq(s, e, Len(s)))
  ELSE Ch(s, 1) \o RemoveRuns(SubSeq(s, 2, Len(s)))

\* ------------------------------------------------------------------------
\* TextUtils
\* ------------------------------------------------------------------------
normalize(text) == RemoveChars(CollapseWs(Trim(text)), SymbolChars)

\* first position at or after i that holds whitespace, Len(s) + 1 when none does
NonWsEnd(s, i) == RunEnd(s, i, {Ch(s, q) : q \in 1..Len(s)} \ {" ", "\t", "\n", "\r"})

RECURSIVE countWords(_)
RECURSIVE countTrimmed(_)
\* text.trim().split(/\s+/).filter(word => word.length > 0).length
countWords(text) == countTrimmed(Trim(text))

countTrimmed(t) ==
  IF t = "" THEN 0 ELSE 1 + countWords(SubSeq(t, NonWsEnd(t, 1), Len(t)))

ScrollMarker == <<Lit("scroll:"), WsS, Lit("horizontal:")>>

cleanOcrArtifacts(text) ==
  Trim(CollapseWs(RemoveRuns(RemoveAll(text, Lower(text), <<ScrollMarker>>))))

\* ------------------------------------------------------------------------
\* PARSING_PATTERNS.  Patterns with the i flag are written in lower case and
\* are matched against Lower(line).
\* ------------------------------------------------------------------------
P_author         == << <<Lit("présentée"), WsP, Lit("par"), WsS, Lit(":"), WsS>> >>
P_specialty      == << <<Lit("spécialité"), WsS, Lit(":"), WsS>> >>
P_submissionDate == << <<Lit("soutenue"), WsP, Lit("le"), WsS, Lit(":"), WsS>> >>
P_university     == << <<Lit("université"), WsP>> >>
P_faculty        == << <<Lit("faculté"), WsP, Lit("des"), WsP>> >>
P_department     == << <<Lit("département"), WsP>> >>
P_academicYear   == << <<Lit("année"), WsP, Lit("universitaire"), WsP>> >>

\* the role alternatives of juryRole
P_juryRoles ==
  << <<Lit("président"), Opt("e"), WsP, Lit("de"), WsP, Lit("jury")>>,
     <<Lit("examinateur"), Opt("s")>>,
     <<Lit("directric"), Opt("e"), WsP, Lit("de"), WsP, Lit("thèse")>>,
     <<Lit("co-directric"), Opt("e"), WsP, Lit("de"), WsP, Lit("thèse")>> >>

\* the numerals accepted by mainChapter: I{1,3}|IV|V|VI{1,3}|IX|X{1,3}
P_mainChapter ==
  << <<Lit("III."), WsS>>, <<Lit("II."), WsS>>, <<Lit("I."), WsS>>, <<Lit("IV."), WsS>>,
     <<Lit("V."), WsS>>, <<Lit("VIII."), WsS>>, <<Lit("VII."), WsS>>, <<Lit("VI."), WsS>>,
     <<Lit("IX."), WsS>>, <<Lit("XXX."), WsS>>, <<Lit("XX."), WsS>>, <<Lit("X."), WsS>> >>

P_figure == << <<Lit("figure"), WsP, Digits>> >>
P_table  == << <<Lit("tableau"), WsP, Digits>> >>

P_titleMarker == << <<Lit("intitulé")>>, ScrollMarker >>

ArabicAbstractHeader == "al-mulakhkhas"

\* PARSING_PATTERNS.sections in the order of Object.entries; atStart holds the
\* alternatives anchored with ^, anywhere the alternatives without an anchor
sections ==
  << [name |-> "acknowledgments", atStart |-> << <<Lit("remerciement"), Opt("s")>> >>,
      anywhere |-> <<>>],
     [name |-> "dedications", atStart |-> << <<Lit("dédicace"), Opt("s")>> >>,
      anywhere |-> <<>>],
     [name |-> "abstractFr", atStart |-> << <<Lit("résumé")>> >>, anywhere |-> <<>>],
     [name |-> "abstractEn", atStart |-> << <<Lit("abstract")>> >>, anywhere |-> <<>>],
     [name |-> "abstractAr", atStart |-> << <<Lit(ArabicAbstractHeader)>> >>,
      anywhere |-> <<>>],
     [name |-> "listOfFigures",
      atStart |-> << <<Lit("liste"), WsP, Lit("des"), WsP, Lit("figures")>> >>,
      anywhere |-> <<>>],
     [name |-> "listOfTables",
      atStart |-> << <<Lit("liste"), WsP, Lit("des"), WsP, Lit("tableaux")>> >>,
      anywhere |-> << <<Lit("table"), WsP, Lit("des"), WsP, Lit("matières")>> >>],
     [name |-> "bibliography",
      atStart |-> << <<Lit("référence"), Opt("s")>>, <<Lit("bibliographie")>> >>,
      anywhere |-> <<>>],
     [name |-> "introduction",
      atStart |-> << <<Lit("i."), WsS, Lit("introduction")>> >>, anywhere |-> <<>>] >>

\* pattern.test(trimmedLine) for one entry of sections; low is Lower(trimmedLine)
SectionTest(sec, low) == TestAt1(low, sec.atStart) \/ Test(low, sec.anywhere)

\* the least element of a set of positive numbers, 0 for the empty set
FirstOf(S) == IF S = {} THEN 0 ELSE CHOOSE k \in S : \A q \in S : k <= q

\* index of the first entry of sections whose pattern matches, 0 when none does
FirstSection(low) == FirstOf({k \in 1..Len(sections) : SectionTest(sections[k], low)})

\* ------------------------------------------------------------------------
\* ThesisData and ParserState
\* ------------------------------------------------------------------------
\* null, of a type that no field value has
Null == [null |-> TRUE]

createDefaultThesisData ==
  [title |-> "", author |-> "", university |-> "", faculty |-> "",
   department |-> "", specialty |-> "", submissionDate |-> "",
   academicYear |-> "", jury |-> <<>>, abstracts |-> <<>>,
   acknowledgments |-> "", dedications |-> "", chapters |-> <<>>,
   bibliography |-> <<>>, listOfFigures |-> <<>>, listOfTables |-> <<>>,
   metadata |-> [wordCount |-> 0, pageCount |-> 0]]

createInitialState ==
  [currentSection |-> "meta", contentBuffer |-> "", currentChapter |-> Null,
   isCapturingTitle |-> FALSE, warnings |-> <<>>, lineNumber |-> 0]

appendContent(existing, newContent) ==
  IF existing # "" THEN existing \o "\n" \o newContent ELSE newContent

\* result.abstracts is a sequence of [language, text] in insertion order, the
\* order of Object.values; the text of a language, "" when it has no entry
AbstractOf(abstracts, lang) ==
  IF \E k \in 1..Len(abstracts) : abstracts[k].language = lang
  THEN abstracts[CHOOSE k \in 1..Len(abstracts) : abstracts[k].language = lang].text
  ELSE ""

\* { ...result.abstracts, [lang]: text }
SetAbstract(abstracts, lang, text) ==
  IF \E k \in 1..Len(abstracts) : abstracts[k].language = lang
  THEN [k \in 1..Len(abstracts) |->
          IF abstracts[k].language = lang THEN [language |-> lang, text |-> text]
          ELSE abstracts[k]]
  ELSE Append(abstracts, [language |-> lang, text |-> text])

\* ------------------------------------------------------------------------
\* parseJuryMember
\* ------------------------------------------------------------------------
NoJuryMatch == [from |-> 0]

\* the groups of juryRole once the role ends before roleEnd and the name is
\* [nameFrom, nameTo): an optional comma, \s*, and the rest of the line
JuryGroups(low, i, roleEnd, nameFrom, nameTo) ==
  [from |-> i, roleEnd |-> roleEnd, nameFrom |-> nameFrom, nameTo |-> nameTo,
   affFrom |-> WsEnd(low, IF nameTo <= Len(low) /\ Ch(low, nameTo) = ","
                          THEN nameTo + 1 ELSE nameTo)]

\* \s*([^,\n]+) after the colon that ends before position colon: k is the end
\* of the whitespace; when no name character follows it, the name is the last
\* whitespace character
JuryName(low, i, roleEnd, colon, k, other) ==
  IF k <= Len(low) /\ Ch(low, k) # ","
  THEN JuryGroups(low, i, roleEnd, k, RunEnd(low, k, {Ch(low, q) : q \in 1..Len(low)} \ {","}))
  ELSE IF k > colon THEN JuryGroups(low, i, roleEnd, k - 1, k)
  ELSE other

\* one role alternative that ends before roleEnd, followed by \s*: before colon
JuryRole(low, i, roleEnd, colon, other) ==
  IF colon = 0 THEN other ELSE JuryName(low, i, roleEnd, colon, WsEnd(low, colon), other)

RECURSIVE JuryAltAt(_, _, _)
\* match of juryRole at position i, trying the role alternatives in order
JuryAltAt(low, i, alts) ==
  IF alts = <<>> THEN NoJuryMatch
  ELSE JuryRole(low, i, MatchSeq(low, i, Head(alts)),
                MatchSeq(low, i, Head(alts) \o <<WsS, Lit(":")>>),
                JuryAltAt(low, i, Tail(alts)))

\* the match, or the alternative when there is none
JuryFound(m, other) == IF m # NoJuryMatch THEN m ELSE other

RECURSIVE JurySearch(_, _)
\* line.match(PARSING_PATTERNS.juryRole): leftmost match at or after i
JurySearch(low, i) ==
  IF i > Len(low) THEN NoJuryMatch
  ELSE JuryFound(JuryAltAt(low, i, P_juryRoles), JurySearch(low, i + 1))

P_affiliationNoise ==
  << <<Lit(", UDL Sidi Bel Abbès")>>, <<Lit("Pr"), Opt(","), WsS>>,
     <<Lit("M.C.A"), Opt(","), WsS>> >>

UnknownAffiliation == "Unknown Affiliation"

\* the member built from the trimmed groups, or null with a warning
JuryMemberOf(role, name, affiliation, state) ==
  IF name = ""
  THEN [member |-> Null,
        state |-> [state EXCEPT !.warnings =
                     Append(@, "Empty jury member name at line " \o ToString(state.lineNumber))]]
  ELSE [member |-> [role |-> role, name |-> name,
                    affiliation |-> IF affiliation # "" THEN affiliation
                                    ELSE UnknownAffiliation],
        state |-> state]

\* rawAffiliation.replace(/, UDL Sidi Bel Abbes|Pr,?\s*|M\.C\.A,?\s*/g, '').trim()
cleanAffiliation(rawAffiliation) ==
  Trim(RemoveAll(rawAffiliation, rawAffiliation, P_affiliationNoise))

\* parseJuryMember once the match m of juryRole is known
JuryMemberAt(line, m, state) ==
  IF m = NoJuryMatch THEN [member |-> Null, state |-> state]
  ELSE JuryMemberOf(Trim(SubSeq(line, m.from, m.roleEnd - 1)),
                    Trim(SubSeq(line, m.nameFrom, m.nameTo - 1)),
                    cleanAffiliation(SubSeq(line, m.affFrom, Len(line))),
                    state)

\* the member or null, and the state with the warning that was pushed
parseJuryMember(line, low, state) == JuryMemberAt(line, JurySearch(low, 1), state)

\* ------------------------------------------------------------------------
\* parseMetadataLine
\* ------------------------------------------------------------------------
\* the patterns array: submissionDate drops . and :, faculty and department
\* put their keyword back in front of the value
metadataPatterns ==
  << [pattern |-> P_author,         field |-> "author",         transform |-> "none"],
     [pattern |-> P_specialty,      field |-> "specialty",      transform |-> "none"],
     [pattern |-> P_submissionDate, field |-> "submissionDate", transform |-> "date"],
     [pattern |-> P_university,     field |-> "university",     transform |-> "none"],
     [pattern |-> P_faculty,        field |-> "faculty",        transform |-> "faculty"],
     [pattern |-> P_department,     field |-> "department",     transform |-> "department"],
     [pattern |-> P_academicYear,   field |-> "academicYear",   transform |-> "none"] >>

applyTransform(kind, text) ==
  CASE kind = "date"       -> RemoveChars(text, {".", ":"})
    [] kind = "faculty"    -> "FACULTÉ DES " \o text
    [] kind = "department" -> "Département " \o text
    [] OTHER               -> text

\* group 1 of the match m, trimmed: the rest of the line after the keyword
CaptureAfter(text, m) == IF m = NoMatch THEN "" ELSE Trim(SubSeq(text, m.to, Len(text)))

\* TextUtils.extractMatch(text, pattern); low is Lower(text)
extractMatch(text, low, pattern) == CaptureAfter(text, SearchFrom(low, 1, pattern))

\* index of the first pattern that matches with a non-empty value, 0 when none
FirstMetadataPattern(line, low) ==
  FirstOf({k \in 1..Len(metadataPatterns) :
             /\ Test(low, metadataPatterns[k].pattern)
             /\ extractMatch(line, low, metadataPatterns[k].pattern) # ""})

\* an assignment that appends the value to the value the field has
setFieldAppended(result, e, value) ==
  [result EXCEPT ![e.field] = @ \o applyTransform(e.transform, value)]

\* the assignment without the transform of the field
setFieldRaw(result, e, value) == [result EXCEPT ![e.field] = value]

\* (result as any)[field] = transform ? transform(value) : value
setField(result, e, value) ==
  [result EXCEPT ![e.field] = applyTransform(e.transform, value)]

\* the result with the member appended, when there is one
withJuryMember(result, j) ==
  [state  |-> j.state,
   result |-> IF j.member # Null THEN [result EXCEPT !.jury = Append(@, j.member)]
              ELSE result]

\* parseMetadataLine once the index k of the matching pattern is known
metadataAt(line, low, result, state, k) ==
  IF k # 0
  THEN [state  |-> state,
        result |-> setField(result, metadataPatterns[k],
                            extractMatch(line, low, metadataPatterns[k].pattern))]
  ELSE withJuryMember(result, parseJuryMember(line, low, state))

parseMetadataLine(line, low, result, state) ==
  metadataAt(line, low, result, state, FirstMetadataPattern(line, low))

\* ------------------------------------------------------------------------
\* processBodyContent, finalizeCurrentChapter
\* ------------------------------------------------------------------------
finalizeCurrentChapter(state, result) ==
  IF state.currentChapter # Null
  THEN [state  |-> [state EXCEPT !.currentChapter = Null, !.contentBuffer = ""],
        result |-> [result EXCEPT !.chapters =
                      Append(@, [title    |-> state.currentChapter.title,
                                 content  |-> normalize(state.contentBuffer),
                                 sections |-> state.currentChapter.sections])]]
  ELSE [state |-> state, result |-> result]

\* a chapter heading line opens a chapter on the parse f that closed the last one
openChapter(line, f) ==
  [state  |-> [f.state EXCEPT
                 !.currentChapter = [title |-> line, content |-> "", sections |-> <<>>],
                 !.contentBuffer = ""],
   result |-> f.result]

processBodyContent(line, state, result) ==
  IF TestAt1(line, P_mainChapter)
  THEN openChapter(line, finalizeCurrentChapter(state, result))
  ELSE [state  |-> [state EXCEPT !.contentBuffer = appendContent(@, line)],
        result |-> result]

\* ------------------------------------------------------------------------
\* processLine
\* ------------------------------------------------------------------------
MinBibliographyLength == 20

\* the filter that keeps a line of exactly the minimum length
isBibliographyEntryAtLeast(trimmedLine) == Len(trimmedLine) >= MinBibliographyLength

\* the filter of the bibliography case
isBibliographyEntry(trimmedLine) == Len(trimmedLine) > MinBibliographyLength

appendAbstract(result, lang, trimmedLine) ==
  [result EXCEPT !.abstracts =
     SetAbstract(@, lang, appendContent(AbstractOf(@, lang), trimmedLine))]

\* the switch on state.currentSection
processSectionContent(trimmedLine, low, state, result) ==
  CASE state.currentSection = "meta" -> parseMetadataLine(trimmedLine, low, result, state)
    [] state.currentSection = "acknowledgments" ->
         [state |-> state,
          result |-> [result EXCEPT !.acknowledgments = appendContent(@, trimmedLine)]]
    [] state.currentSection = "dedications" ->
         [state |-> state,
          result |-> [result EXCEPT !.dedications = appendContent(@, trimmedLine)]]
    [] state.currentSection = "abstractFr" ->
         [state |-> state, result |-> appendAbstract(result, "French", trimmedLine)]
    [] state.currentSection = "abstractEn" ->
         [state |-> state, result |-> appendAbstract(result, "English", trimmedLine)]
    [] state.currentSection = "abstractAr" ->
         [state |-> state, result |-> appendAbstract(result, "Arabic", trimmedLine)]
    [] state.currentSection = "listOfFigures" ->
         [state |-> state,
          result |-> IF TestAt1(low, P_figure)
                     THEN [result EXCEPT !.listOfFigures = Append(@, trimmedLine)]
                     ELSE result]
    [] state.currentSection = "listOfTables" ->
         [state |-> state,
          result |-> IF TestAt1(low, P_table)
                     THEN [result EXCEPT !.listOfTables = Append(@, trimmedLine)]
                     ELSE result]
    [] state.currentSection = "body" -> processBodyContent(trimmedLine, state, result)
    [] state.currentSection = "bibliography" ->
         [state |-> state,
          result |-> IF isBibliographyEntry(trimmedLine)
                     THEN [result EXCEPT !.bibliography = Append(@, trimmedLine)]
                     ELSE result]
    [] OTHER ->
         [state |-> [state EXCEPT !.warnings =
                       Append(@, "Unknown section \"" \o state.currentSection
                                 \o "\" at line " \o ToString(state.lineNumber))],
          result |-> result]

\* entering an abstract section creates the entry of its language at once
enterSectionWithKey(name, f) ==
  [state  |-> [f.state EXCEPT !.currentSection = name, !.isCapturingTitle = FALSE],
   result |-> IF name = "abstractFr"
              THEN [f.result EXCEPT !.abstracts = SetAbstract(@, "French", "")]
              ELSE f.result]

\* the parse f after the chapter was closed, now in the section called name
enterSection(name, f) ==
  [state  |-> [f.state EXCEPT !.currentSection = name, !.isCapturingTitle = FALSE],
   result |-> f.result]

\* the section loop once the index k of the matching header is known, and the
\* switch when no header matches
sectionAt(k, state, result, otherwise) ==
  IF k # 0
  THEN enterSection(sections[k].name,
                    IF state.currentChapter # Null /\ state.currentSection = "body"
                    THEN finalizeCurrentChapter(state, result)
                    ELSE [state |-> state, result |-> result])
  ELSE otherwise

\* section detection and switching, then the content of the current section
switchSection(trimmedLine, low, state, result) ==
  sectionAt(FirstSection(low), state, result,
            processSectionContent(trimmedLine, low, state, result))

\* result.title ? (result.title + ' ' + part) : part
appendTitle(title, part) == IF title # "" THEN title \o " " \o part ELSE part

\* the title marker line: the rest of the line joins the title, when not empty
startTitle(titlePart, state, result) ==
  [state  |-> [state EXCEPT !.isCapturingTitle = TRUE],
   result |-> IF titlePart # "" THEN [result EXCEPT !.title = appendTitle(@, titlePart)]
              ELSE result]

\* processLine after lineNumber was incremented; low is Lower(trimmedLine)
processCounted(trimmedLine, low, state, result) ==
  IF Test(low, P_titleMarker)
  THEN startTitle(Trim(RemoveFirst(trimmedLine, low, P_titleMarker)), state, result)
  ELSE IF state.isCapturingTitle /\ ~Test(low, P_submissionDate)
  THEN [state  |-> state,
        result |-> [result EXCEPT !.title = appendTitle(@, trimmedLine)]]
  ELSE switchSection(trimmedLine, low,
                     [state EXCEPT !.isCapturingTitle = FALSE],
                     IF state.isCapturingTitle
                     THEN [result EXCEPT !.title = cleanOcrArtifacts(@)]
                     ELSE result)

\* processLine once the line is trimmed
processTrimmed(trimmedLine, state, result) ==
  IF trimmedLine = "" THEN [state |-> state, result |-> result]
  ELSE processCounted(trimmedLine, Lower(trimmedLine),
                      [state EXCEPT !.lineNumber = @ + 1], result)

processLine(line, state, result) == processTrimmed(Trim(line), state, result)

\* ------------------------------------------------------------------------
\* calculateMetadata, validateThesisData
\* ------------------------------------------------------------------------
RECURSIVE Join(_, _)
\* Array.prototype.join
Join(parts, sep) ==
  IF parts = <<>> THEN ""
  ELSE IF Len(parts) = 1 THEN parts[1]
  ELSE parts[1] \o sep \o Join(Tail(parts), sep)

\* the array that calculateMetadata joins
allContent(result) ==
  <<result.title, result.acknowledgments, result.dedications>>
  \o [k \in 1..Len(result.abstracts) |-> result.abstracts[k].text]
  \o [k \in 1..Len(result.chapters) |-> result.chapters[k].content]
  \o result.bibliography

WordsPerPage == 250

\* Math.max(1, Math.ceil(words / 250))
metadataOf(words) ==
  [wordCount |-> words,
   pageCount |-> IF words = 0 THEN 1 ELSE (words + WordsPerPage - 1) \div WordsPerPage]

calculateMetadata(result) == metadataOf(countWords(Join(allContent(result), " ")))

validateThesisData(data) ==
  (IF data.title = "" THEN <<"Missing thesis title">> ELSE <<>>)
  \o (IF data.author = "" THEN <<"Missing author name">> ELSE <<>>)
  \o (IF data.university = "" THEN <<"Missing university name">> ELSE <<>>)
  \o (IF Len(data.chapters) = 0 THEN <<"No chapters found in the document">> ELSE <<>>)
  \o (IF Len(data.jury) = 0 THEN <<"No jury members found">> ELSE <<>>)

\* ------------------------------------------------------------------------
\* Inputs
\* ------------------------------------------------------------------------
RECURSIVE Split(_)
RECURSIVE SplitAt(_, _)
\* textContent.split('\n')
Split(text) == SplitAt(text, RunEnd(text, 1, {Ch(text, q) : q \in 1..Len(text)} \ {"\n"}))

\* e is the position of the first line feed of text, Len(text) + 1 when none
SplitAt(text, e) ==
  IF e > Len(text) THEN <<text>>
  ELSE <<SubSeq(text, 1, e - 1)>> \o Split(SubSeq(text, e + 1, Len(text)))

\* the lines that generated inputs are built from
LineAlphabet ==
  <<"  ", "Intitulé Deep Parsing", "Soutenue le : 12.03.2024",
    "Présentée par: Jane Doe", "I. Introduction", "II. Methodology",
    "Références", "Knuth D., The Art, 1968.">>

MaxLines == 3

RECURSIVE TextsOfLength(_)
\* the texts of n lines of LineAlphabet
TextsOfLength(n) ==
  IF n = 1 THEN {LineAlphabet[k] : k \in 1..Len(LineAlphabet)}
  ELSE {t \o "\n" \o LineAlphabet[k] :
          t \in TextsOfLength(n - 1), k \in 1..Len(LineAlphabet)}

BodyExample ==
  "I. Introduction\nSome opening text.\n1.1 Background\nContext text.\nII. Methodology\nApproach text."

FrontMatter ==
  "Université de Paris\nIntitulé Deep Parsing\nSoutenue le : 12.03.2024\nPrésentée par: Jane Doe\n"

JuryLine == "Directrice de thèse: Dr. A. Smith, Pr, University X\n"

BibliographyExample ==
  "Références\nKnuth D., The Art, 1968.\nLamport, Specifying.\nLamport L., TLA+, 2002\nshort"

SectionsExample ==
  "Remerciements\nThanks to all.\nRésumé\nUn texte.\nAbstract\nA text.\nListe des figures\nFigure 1 Overview\nBibliographie\nLamport L., Specifying Systems."

ExampleTexts ==
  {"", BodyExample, FrontMatter \o JuryLine \o BodyExample, FrontMatter \o BodyExample,
   FrontMatter \o "Examinateur: , UDL\nPrésident de jury: B. Roy",
   BibliographyExample, SectionsExample}

Texts == ExampleTexts \cup UNION {TextsOfLength(n) : n \in 1..MaxLines}

\* ParserConfig
Configs == [strictMode : BOOLEAN, extractMetadata : BOOLEAN]

\* ------------------------------------------------------------------------
\* parseThesisContent as a state machine: one step per line
\* ------------------------------------------------------------------------
VARIABLES
  textContent,  \* the argument textContent
  config,       \* the argument config
  faults,       \* the indices of lines whose processing throws
  pc,           \* "start", "loop" or "done"
  lines,        \* the trimmed lines
  idx,          \* index of the line the loop is at
  state,        \* ParserState
  result,       \* ThesisData under construction
  ret,          \* the ParseResult returned
  lastIndex,      \* extractChapters: chapterPattern.lastIndex, counted from 1
  chapterMatches, \* extractChapters: the matches collected by the exec loop
  chapters,       \* extractChapters: the chapters pushed so far
  simple,         \* the call of parseThesisContent of utils/thesisParser.ts
  calls,          \* two calls of parseThesisContent in progress at once
  dom,            \* the child nodes of the body of an HTML document
  clone,          \* the copy of the body that the extraction rewrites
  domText,        \* the text extracted from dom
  legacy,         \* the value returned by parseThesisContentLegacy
  thesis,         \* the call of parseHtmlThesis
  upload          \* the FileUpload component

vars == <<textContent, config, faults, pc, lines, idx, state, result, ret,
          lastIndex, chapterMatches, chapters, simple, calls, dom, clone, domText, legacy,
          thesis, upload>>

\* the variables of extractChapters
htmlVars == <<lastIndex, chapterMatches, chapters>>

\* the variables of the line loop of parseThesisContent
lineVars == <<config, faults, lines, idx, state, result, ret>>

\* the variables of the other entry points
restVars == <<simple, calls, dom, clone, domText, legacy, thesis, upload>>

\* no value returned yet
Idle == [idle |-> TRUE]

\* parseHtmlThesis has not been called and no FileUpload is mounted
StartMore ==
  /\ thesis = [pc |-> "idle"]
  /\ upload = [pc |-> "idle"]

\* the other entry points have not been called
StartRest ==
  /\ simple = [pc |-> "idle"]
  /\ calls = <<>>
  /\ dom = <<>>
  /\ clone = <<>>
  /\ domText = ""
  /\ legacy = Idle
  /\ StartMore

Start ==
  /\ lines = <<>>
  /\ idx = 0
  /\ state = createInitialState
  /\ result = createDefaultThesisData
  /\ ret = Idle
  /\ lastIndex = 1
  /\ chapterMatches = <<>>
  /\ chapters = <<>>

Init ==
  /\ textContent \in Texts
  /\ config \in Configs
  /\ faults = {}
  /\ pc = "start"
  /\ Start
  /\ StartRest

\* the guard without trim(): only the empty string is rejected
IsEmptyInputNoTrim(text) == text = ""

\* !textContent || textContent.trim().length === 0
IsEmptyInput(text) == text = "" \/ Len(Trim(text)) = 0

\* textContent.split('\n').map(line => line.trim())
trimmedLines(raw) == [k \in 1..Len(raw) |-> Trim(raw[k])]

\* the guard on empty input, then the split into lines
Enter ==
  /\ pc = "start"
  /\ IF IsEmptyInput(textContent)
     THEN /\ ret' = [success |-> FALSE, error |-> "Empty or invalid text content provided"]
          /\ pc' = "done"
          /\ UNCHANGED <<lines, idx>>
     ELSE /\ lines' = trimmedLines(Split(textContent))
          /\ idx' = 1
          /\ pc' = "loop"
          /\ ret' = ret
  /\ UNCHANGED <<textContent, config, faults, state, result, htmlVars, restVars>>

FaultMessage == "Unknown error"

\* a catch block that swallows the error without a warning
catchLineErrorSilent(state0) == [state0 EXCEPT !.lineNumber = @ + 1]

\* the catch block of the loop; the throw comes after lineNumber was incremented
catchLineError(state0) ==
  [state0 EXCEPT
     !.lineNumber = @ + 1,
     !.warnings = Append(@, "Error processing line " \o ToString(state0.lineNumber + 1)
                            \o ": " \o FaultMessage)]

\* one iteration of the loop over lines
LineStep ==
  /\ pc = "loop"
  /\ idx <= Len(lines)
  /\ IF idx \in faults /\ lines[idx] # ""
     THEN /\ state' = catchLineError(state)
          /\ result' = result
     ELSE \E r \in {processLine(lines[idx], state, result)} :
            /\ state' = r.state
            /\ result' = r.result
  /\ idx' = idx + 1
  /\ UNCHANGED <<textContent, config, faults, pc, lines, ret, htmlVars, restVars>>

\* if (config.extractMetadata !== false) result.metadata = calculateMetadata(result)
withMetadata(cfg, data) ==
  IF cfg.extractMetadata THEN [data EXCEPT !.metadata = calculateMetadata(data)] ELSE data

\* the return that forgets config.strictMode
returnValueLenient(validationErrors, cfg, data, warnings) ==
  IF Len(warnings) > 0
  THEN [success |-> TRUE, data |-> data, warnings |-> warnings]
  ELSE [success |-> TRUE, data |-> data]

\* the ParseResult after validation
returnValue(validationErrors, cfg, data, warnings) ==
  IF Len(validationErrors) > 0 /\ cfg.strictMode
  THEN [success |-> FALSE,
        error |-> "Validation failed: " \o Join(validationErrors, ", "),
        partialData |-> data]
  ELSE IF Len(warnings) > 0
  THEN [success |-> TRUE, data |-> data, warnings |-> warnings]
  ELSE [success |-> TRUE, data |-> data]

\* after the loop: the last chapter, the metadata, the validation, the return
Return ==
  /\ pc = "loop"
  /\ idx > Len(lines)
  /\ \E f \in {finalizeCurrentChapter(state, result)} :
       /\ state' = f.state
       /\ result' = withMetadata(config, f.result)
  /\ ret' = returnValue(validateThesisData(result'), config, result', state'.warnings)
  /\ pc' = "done"
  /\ UNCHANGED <<textContent, config, faults, lines, idx, htmlVars, restVars>>

Next == Enter \/ LineStep \/ Return

Spec == Init /\ [][Next]_vars

MaxFaultLine == 2

MaxErrorLines == 2

\* the inputs of the runs in which lines throw
ErrorTexts == ExampleTexts \cup UNION {TextsOfLength(n) : n \in 1..MaxErrorLines}

\* the same machine when the processing of some lines throws
InitLineError ==
  /\ textContent \in ErrorTexts
  /\ config \in Configs
  /\ faults \in (SUBSET (1..MaxFaultLine)) \ {{}}
  /\ pc = "start"
  /\ Start
  /\ StartRest

SpecLineError == InitLineError /\ [][Next]_vars

\* ------------------------------------------------------------------------
\* extractChapters of the HTML parser (improvedHtmlParser.ts), one step per
\* regular expression match and one per chapter; textContent holds bodyText,
\* the trimmed text of the document body
\* ------------------------------------------------------------------------
HtmlLineAlphabet ==
  <<"I. Introduction", "II. Methodology", "Some opening text.", "1.1 Background",
    "", "IV.">>

MaxBodyLines == 4

RECURSIVE BodyTextsOfLength(_)
\* the texts of n lines of HtmlLineAlphabet
BodyTextsOfLength(n) ==
  IF n = 1 THEN {HtmlLineAlphabet[k] : k \in 1..Len(HtmlLineAlphabet)}
  ELSE {t \o "\n" \o HtmlLineAlphabet[k] :
          t \in BodyTextsOfLength(n - 1), k \in 1..Len(HtmlLineAlphabet)}

\* parser.extractTextContent(doc.body) ends with trim()
BodyTexts == {Trim(t) : t \in UNION {BodyTextsOfLength(n) : n \in 1..MaxBodyLines}}

InitExtractChapters ==
  /\ textContent \in BodyTexts
  /\ config = [strictMode |-> FALSE, extractMetadata |-> TRUE]
  /\ faults = {}
  /\ pc = "exec"
  /\ Start
  /\ StartRest

\* ^ under the m flag: position i starts a line of s
AtLineStart(s, i) == i = 1 \/ Ch(s, i - 1) = "\n"

\* (.*?)$ under the m flag: the end of the line that position i is on
LineEnd(s, i) == RunEnd(s, i, {Ch(s, q) : q \in 1..Len(s)} \ {"\n"})

\* the match that starts at i when the numeral, the dot and \s* end before e
ChapterMatchAt(s, i, e, other) ==
  IF e # 0 THEN [from |-> i, to |-> LineEnd(s, e)] ELSE other

RECURSIVE ChapterSearch(_, _)
\* chapterPattern.exec(bodyText) from position i: [from, to) or NoMatch
ChapterSearch(s, i) ==
  IF i > Len(s) THEN NoMatch
  ELSE IF AtLineStart(s, i)
  THEN ChapterMatchAt(s, i, MatchAlt(s, i, P_mainChapter), ChapterSearch(s, i + 1))
  ELSE ChapterSearch(s, i + 1)

\* chapterMatches.push({ index, title: match[0] })
pushMatch(m) ==
  /\ chapterMatches' = Append(chapterMatches,
                              [index |-> m.from, title |-> SubSeq(textContent, m.from, m.to - 1)])
  /\ lastIndex' = m.to

\* one iteration of the exec loop that finds a match
ExecMatch ==
  /\ pc = "exec"
  /\ \E m \in {ChapterSearch(textContent, lastIndex)} :
       /\ m # NoMatch
       /\ pushMatch(m)
  /\ UNCHANGED <<textContent, pc, chapters, lineVars, restVars>>

\* exec returns null: the loop ends
ExecEnd ==
  /\ pc = "exec"
  /\ ChapterSearch(textContent, lastIndex) = NoMatch
  /\ pc' = "slice"
  /\ lastIndex' = 1
  /\ UNCHANGED <<textContent, chapterMatches, chapters, lineVars, restVars>>

\* bodyText.substring(startIndex, endIndex).trim() for the match number i
chapterContent(bodyText, matches, i) ==
  Trim(SubSeq(bodyText, matches[i].index,
              IF i < Len(matches) THEN matches[i + 1].index - 1 ELSE Len(bodyText)))

\* one iteration of the loop over chapterMatches; i is chapters.length + 1
PushChapter ==
  /\ pc = "slice"
  /\ Len(chapters) < Len(chapterMatches)
  /\ chapters' = Append(chapters,
                        [title    |-> chapterMatches[Len(chapters) + 1].title,
                         content  |-> chapterContent(textContent, chapterMatches,
                                                     Len(chapters) + 1),
                         sections |-> <<>>])
  /\ UNCHANGED <<textContent, pc, lastIndex, chapterMatches, lineVars, restVars>>

ReturnChapters ==
  /\ pc = "slice"
  /\ Len(chapters) = Len(chapterMatches)
  /\ pc' = "returned"
  /\ UNCHANGED <<textContent, lastIndex, chapterMatches, chapters, lineVars, restVars>>

NextExtractChapters == ExecMatch \/ ExecEnd \/ PushChapter \/ ReturnChapters

SpecExtractChapters == InitExtractChapters /\ [][NextExtractChapters]_vars

\* ------------------------------------------------------------------------
\* Properties of parseThesisContent
\* ------------------------------------------------------------------------
\* every character of the text is whitespace
OnlyWhitespace(text) == \A q \in 1..Len(text) : IsWs(Ch(text, q))

\* the document a returned ParseResult carries
Document == IF ret.success THEN ret.data ELSE ret.partialData

\* the warnings of a returned ParseResult, none when the key is absent
Warnings == IF "warnings" \in DOMAIN ret THEN ret.warnings ELSE <<>>

\* the text w contains the word, whatever the case
Mentions(w, word) == Test(Lower(w), << <<Lit(word)>> >>)

\* C1: for an empty or whitespace-only text the call returns a failure with
\* an error reason and neither a document nor a partial document, whatever
\* the config
EmptyInputFails ==
  pc = "done" /\ OnlyWhitespace(textContent) =>
    /\ ret.success = FALSE
    /\ DOMAIN ret = {"success", "error"}
    /\ ret.error # ""

\* C1 witness: a text of blanks only, parsed in strict mode, was rejected
EmptyInputFailsWitness ==
  /\ pc = "done"
  /\ textContent # ""
  /\ OnlyWhitespace(textContent)
  /\ config.strictMode
  /\ ret.success = FALSE

\* C2: with strictMode the call fails with partialData equal to the document
\* built so far whenever the validator reports a problem, and succeeds when it
\* reports none; without strictMode it always succeeds with the document
StrictModeEscalates ==
  /\ pc = "done" /\ ~OnlyWhitespace(textContent) =>
       IF config.strictMode /\ validateThesisData(result) # <<>>
       THEN /\ ret.success = FALSE
            /\ "partialData" \in DOMAIN ret
            /\ ret.partialData = result
       ELSE /\ ret.success = TRUE
            /\ ret.data = result
  /\ \A cfg \in Configs :
       /\ returnValue(<<>>, cfg, result, state.warnings).success = TRUE
       /\ returnValue(<<>>, cfg, result, state.warnings).data = result

\* C2 witness: a strict parse failed with the partial document while the
\* validator reported a problem
StrictModeEscalatesWitness ==
  /\ pc = "done"
  /\ config.strictMode
  /\ validateThesisData(result) # <<>>
  /\ ret.success = FALSE
  /\ "partialData" \in DOMAIN ret
  /\ ret.partialData = result
  /\ result.title = "Deep Parsing"

\* the required items of the validator and the word that names each
RequiredItems == {"title", "author", "university", "chapter"}

ItemMissing(data, item) ==
  CASE item = "title"      -> data.title = ""
    [] item = "author"     -> data.author = ""
    [] item = "university" -> data.university = ""
    [] item = "chapter"    -> Len(data.chapters) = 0

\* C3: a non-strict success lists, for every required item the document
\* lacks, a warning that names the item
MissingItemsWarned ==
  pc = "done" /\ ~config.strictMode /\ ret.success = TRUE =>
    \A item \in RequiredItems :
      ItemMissing(ret.data, item) =>
        \E k \in 1..Len(Warnings) : Mentions(Warnings[k], item)

\* C4: a document without jury members is returned with a warning about the
\* jury, and a failure never names the missing jury as a reason
JuryAbsenceOnlyWarns ==
  pc = "done" /\ ~OnlyWhitespace(textContent) /\ Len(result.jury) = 0 =>
    /\ ret.success = FALSE => ~Mentions(ret.error, "jury")
    /\ ret.success = TRUE => \E k \in 1..Len(Warnings) : Mentions(Warnings[k], "jury")

\* the loop is at a line whose processing throws
LineThrows == pc = "loop" /\ idx <= Len(lines) /\ idx \in faults /\ lines[idx] # ""

\* the lines whose processing throws
ThrowingLines == {k \in faults : k <= Len(lines) /\ lines[k] # ""}

\* the warnings of the catch block among the warnings w
LineErrorWarnings(w) ==
  {k \in 1..Len(w) : TestAt1(w[k], << <<Lit("Error processing line ")>> >>)}

RECURSIVE SkippingParse(_, _, _)
RECURSIVE SkippingFrom(_, _)
\* the parse of lines k.. in which the throwing lines are left out
SkippingParse(k, st, res) ==
  IF k > Len(lines) THEN [state |-> st, result |-> res]
  ELSE IF k \in ThrowingLines THEN SkippingParse(k + 1, st, res)
  ELSE SkippingFrom(k + 1, processLine(lines[k], st, res))

\* the rest of that parse after the step r
SkippingFrom(k, r) == SkippingParse(k, r.state, r.result)

\* C5: when the processing of a line throws, the step leaves the document
\* and the parser state as they were apart from the line counter and exactly
\* one new warning, the loop goes on to the next line, the finished document
\* is the one the other lines yield, and a failure is returned only for the
\* validator's findings in strict mode
LineErrorContained ==
  /\ [][LineThrows =>
          /\ result' = result
          /\ Len(state'.warnings) = Len(state.warnings) + 1
          /\ SubSeq(state'.warnings, 1, Len(state.warnings)) = state.warnings
          /\ LineErrorWarnings(state'.warnings)
               = LineErrorWarnings(state.warnings) \cup {Len(state'.warnings)}
          /\ [state' EXCEPT !.warnings = state.warnings,
                            !.lineNumber = state.lineNumber] = state
          /\ pc' = "loop"
          /\ idx' = idx + 1]_vars
  /\ [](pc = "done" /\ ~OnlyWhitespace(textContent) =>
          /\ idx = Len(lines) + 1
          /\ Cardinality(LineErrorWarnings(state.warnings)) = Cardinality(ThrowingLines)
          /\ result = withMetadata(config,
                        finalizeCurrentChapter(
                          SkippingParse(1, createInitialState, createDefaultThesisData).state,
                          SkippingParse(1, createInitialState, createDefaultThesisData).result
                        ).result)
          /\ ret.success = FALSE =>
               /\ config.strictMode
               /\ validateThesisData(result) # <<>>
               /\ "partialData" \in DOMAIN ret)

\* C5 witness: the first line, a title line, threw; the author line after it
\* was processed and the call succeeded with the warning
LineErrorContainedWitness ==
  /\ pc = "done"
  /\ faults = {1}
  /\ Len(lines) >= 2
  /\ lines[1] = "Intitulé Deep Parsing"
  /\ lines[2] = "Présentée par: Jane Doe"
  /\ result.title = ""
  /\ result.author = "Jane Doe"
  /\ ret.success = TRUE
  /\ Len(Warnings) = 1

\* C6: the six example lines yield the chapters "I. Introduction" and
\* "II. Methodology" in that order, the first with the single section
\* "1.1 Background" of content "Context text.", the second with content
\* "Approach text." and no sections
BodyExampleChapters ==
  pc = "done" /\ textContent = BodyExample =>
    /\ Len(Document.chapters) = 2
    /\ Document.chapters[1].title = "I. Introduction"
    /\ Document.chapters[2].title = "II. Methodology"
    /\ Len(Document.chapters[1].sections) = 1
    /\ Document.chapters[1].sections[1].title = "1.1 Background"
    /\ Document.chapters[1].sections[1].content = "Context text."
    /\ Document.chapters[2].content = "Approach text."
    /\ Document.chapters[2].sections = <<>>

\* C7: once the body-start line has been read the machine is in body state,
\* and a roman-numeral heading line read next opens a chapter of that title
BodyStateAfterStart ==
  /\ pc = "loop" /\ idx > 1 /\ lines[idx - 1] = "I. Introduction"
       /\ ~state.isCapturingTitle
       => state.currentSection = "body"
  /\ pc = "loop" /\ idx > 2 /\ lines[idx - 2] = "I. Introduction"
       /\ lines[idx - 1] = "II. Methodology" /\ ~state.isCapturingTitle
       => /\ state.currentChapter # Null
          /\ state.currentChapter.title = "II. Methodology"

\* a line that is neither blank nor a heading nor a boundary line
PlainLine(l) ==
  /\ l # ""
  /\ ~TestAt1(l, P_mainChapter)
  /\ ~Test(Lower(l), P_titleMarker)
  /\ FirstSection(Lower(l)) = 0

\* C8: when the lines after the body-start line hold text and no heading,
\* the document has exactly one chapter, titled "Main Content", whose content
\* holds every one of those lines
MainContentFallback ==
  pc = "done" /\ Len(lines) >= 2 /\ lines[1] = "I. Introduction"
    /\ (\A k \in 2..Len(lines) : PlainLine(lines[k]))
    => /\ Len(Document.chapters) = 1
       /\ Document.chapters[1].title = "Main Content"
       /\ \A k \in 2..Len(lines) :
            Test(Document.chapters[1].content, << <<Lit(lines[k])>> >>)

\* C9: no line of the content of a returned chapter is a line that the
\* chapter pattern classifies as a heading; the heading line of a chapter is
\* its title only
ContentHoldsNoHeading ==
  pc = "returned" =>
    \A k \in 1..Len(chapters) :
      \A l \in 1..Len(Split(chapters[k].content)) :
        ~TestAt1(Split(chapters[k].content)[l], P_mainChapter)

\* the input is a bibliography keyword line followed by entry lines: lines
\* that are neither title markers nor section keywords
IsBibliographyInput ==
  /\ Len(lines) >= 1
  /\ TestAt1(Lower(lines[1]), << <<Lit("référence")>>, <<Lit("bibliographie")>> >>)
  /\ ~Test(Lower(lines[1]), P_titleMarker)
  /\ \A k \in 2..Len(lines) :
       lines[k] = "" \/ (~Test(Lower(lines[k]), P_titleMarker) /\ FirstSection(Lower(lines[k])) = 0)

LongerThanMinimum(l) == Len(l) > 20

AtLeastMinimum(l) == Len(l) >= 20

\* C10: for a bibliography keyword line followed by entry lines, the
\* bibliography holds, in their order, exactly the lines of more than 20
\* characters; the lines of 20 characters or fewer are the ones dropped
BibliographyKeepsLongLines ==
  pc = "done" /\ IsBibliographyInput =>
    Document.bibliography = SelectSeq(Tail(lines), LongerThanMinimum)

\* C10 as stated: the bibliography holds exactly the lines of at least 20
\* characters
BibliographyKeepsTwentyChars ==
  pc = "done" /\ IsBibliographyInput =>
    Document.bibliography = SelectSeq(Tail(lines), AtLeastMinimum)

\* C10 witness: of the four lines after the keyword the two long ones were
\* kept in order, the line of 20 characters and the short one were dropped
BibliographyKeepsLongLinesWitness ==
  /\ pc = "done"
  /\ textContent = BibliographyExample
  /\ Len(lines[3]) = 20
  /\ ret.success = TRUE
  /\ ret.data.bibliography = <<"Knuth D., The Art, 1968.", "Lamport L., TLA+, 2002">>

\* ------------------------------------------------------------------------
\* Front matter: the lines of the title page
\* ------------------------------------------------------------------------
FrontLineAlphabet ==
  <<"Présentée par: Jane Doe", "Spécialité: Computer Science",
    "Soutenue le : 12.03.2024", "Université de Provence", "Faculté des Sciences",
    "Département Informatique", "Année universitaire 2023-2024",
    "Directrice de thèse: Dr. A. Smith, Pr, University X",
    "Examinateur: B. Roy, Université de Provence", "Président de jury: C. Lee",
    "Examinateur: D. Kim, Pr, Prague Institute", "Intitulé Deep Parsing">>

MaxFrontLines == 2

RECURSIVE TextsOver(_, _)
\* the texts of n lines of the alphabet
TextsOver(alphabet, n) ==
  IF n = 1 THEN {alphabet[k] : k \in 1..Len(alphabet)}
  ELSE {t \o "\n" \o alphabet[k] : t \in TextsOver(alphabet, n - 1), k \in 1..Len(alphabet)}

FrontTexts == UNION {TextsOver(FrontLineAlphabet, n) : n \in 1..MaxFrontLines}

\* parseThesisContent on title pages
InitFront ==
  /\ textContent \in FrontTexts
  /\ config \in [strictMode : BOOLEAN, extractMetadata : {TRUE}]
  /\ faults = {}
  /\ pc = "start"
  /\ Start
  /\ StartRest

SpecFront == InitFront /\ [][Next]_vars

\* the loop is at a line that the meta branch handles, no title being captured
AtMetaLine ==
  /\ pc = "loop"
  /\ idx <= Len(lines)
  /\ lines[idx] # ""
  /\ state.currentSection = "meta"
  /\ ~state.isCapturingTitle
  /\ ~Test(Lower(lines[idx]), P_titleMarker)
  /\ FirstSection(Lower(lines[idx])) = 0

\* the value the field of a matcher receives from the captured remainder:
\* the date loses its dots and colons, faculty and department get their label
\* back, the other fields take the remainder as it is
FieldValue(field, remainder) ==
  CASE field = "submissionDate" -> RemoveChars(remainder, {".", ":"})
    [] field = "faculty"        -> "FACULTÉ DES " \o remainder
    [] field = "department"     -> "Département " \o remainder
    [] OTHER                    -> remainder

\* the step taken at a meta line that matcher k matches sets the field of k
\* to FieldValue of the remainder and nothing else
MetaLineSetsField(k, low) ==
  k # 0 =>
    result' = [result EXCEPT ![metadataPatterns[k].field] =
                 FieldValue(metadataPatterns[k].field,
                            extractMatch(lines[idx], low, metadataPatterns[k].pattern))]

\* the same with the remainder stored as captured
MetaLineStoresRemainder(k, low) ==
  k # 0 =>
    result' = [result EXCEPT ![metadataPatterns[k].field] =
                 extractMatch(lines[idx], low, metadataPatterns[k].pattern)]

AuthorSpecialtyExample == "Présentée par: Jane Doe\nSpécialité: Computer Science"

FirstIndex(s, c) == RunEnd(s, 1, {Ch(s, q) : q \in 1..Len(s)} \ {c})

StartsWith(t, p) == Len(t) >= Len(p) /\ SubSeq(t, 1, Len(p)) = p

RECURSIVE StripMarkers(_)
\* t without the markers "Pr," and "M.C.A," in front of it
StripMarkers(t) ==
  IF StartsWith(t, "Pr,") THEN StripMarkers(Trim(SubSeq(t, 4, Len(t))))
  ELSE IF StartsWith(t, "M.C.A,") THEN StripMarkers(Trim(SubSeq(t, 7, Len(t))))
  ELSE t

RoleLabels ==
  {"présidente de jury", "président de jury", "examinateur", "examinateurs",
   "directrice de thèse", "co-directrice de thèse"}

\* the member that the line "<role>: <name>, <markers>, <affiliation>" describes
MemberAt(line, colon, comma) ==
  [role        |-> Trim(SubSeq(line, 1, colon - 1)),
   name        |-> Trim(SubSeq(line, colon + 1, comma - 1)),
   affiliation |-> StripMarkers(Trim(SubSeq(line, comma + 1, Len(line))))]

DescribedMember(line) == MemberAt(line, FirstIndex(line, ":"), FirstIndex(line, ","))

\* the line has the form "<role>: <name>, <markers>, <affiliation>"
IsJuryLine(line) ==
  /\ FirstIndex(line, ":") < FirstIndex(line, ",")
  /\ FirstIndex(line, ",") <= Len(line)
  /\ \A m \in {DescribedMember(line)} :
       Lower(m.role) \in RoleLabels /\ m.name # "" /\ m.affiliation # ""

\* C12: in meta state a line of the form "<role>: <name>, <markers>,
\* <affiliation>" appends exactly one jury member, after the members already
\* there, with the role label, the name before the first comma and the
\* affiliation that remains once the markers in front of it are removed; the
\* line "Directrice de thèse: Dr. A. Smith, Pr, University X" alone gives the
\* member ("Directrice de thèse", "Dr. A. Smith", "University X")
JuryLineAppendsMember ==
  /\ [][AtMetaLine /\ LineStep /\ IsJuryLine(lines[idx]) =>
          result' = [result EXCEPT !.jury = Append(@, DescribedMember(lines[idx]))]]_vars
  /\ [](pc = "done" /\ textContent = "Directrice de thèse: Dr. A. Smith, Pr, University X" =>
          Document.jury = << [role |-> "Directrice de thèse", name |-> "Dr. A. Smith",
                              affiliation |-> "University X"] >>)

\* ------------------------------------------------------------------------
\* parseThesisContent of utils/thesisParser.ts: the parser that returns the
\* ThesisData itself.  The variable simple holds its locals
\* ------------------------------------------------------------------------
\* the section switches that end in continue, in the order of the if statements
simpleSections ==
  << [name |-> "acknowledgments", atStart |-> << <<Lit("remerciement")>> >>, anywhere |-> <<>>],
     [name |-> "dedications", atStart |-> << <<Lit("dédicaces")>> >>, anywhere |-> <<>>],
     [name |-> "abstract-fr", atStart |-> << <<Lit("résumé")>> >>, anywhere |-> <<>>],
     [name |-> "abstract-en", atStart |-> << <<Lit("abstract")>> >>, anywhere |-> <<>>],
     [name |-> "abstract-ar", atStart |-> << <<Lit(ArabicAbstractHeader)>> >>,
      anywhere |-> <<>>],
     [name |-> "listOfFigures", atStart |-> << <<Lit("liste des figures")>> >>,
      anywhere |-> <<>>],
     [name |-> "listOfTables", atStart |-> << <<Lit("liste des tableaux")>> >>,
      anywhere |-> << <<Lit("table des métiers")>> >>] >>

simpleIntroduction == << <<Lit("i."), WsS, Lit("introduction")>> >>
simpleReferences   == << <<Lit("références")>> >>
simpleTitleMarker  == << <<Lit("intitulé")>>, <<Lit("scroll: horizontal:")>> >>
dateRegex          == << <<Lit("soutenue le"), WsS, Lit(":"), WsS>> >>

\* the regular expressions of the meta case in the order of the else-if chain
simplePatterns ==
  << [pattern |-> << <<Lit("présentée par"), WsS, Lit(":"), WsS>> >>,
      field |-> "author", transform |-> "none"],
     [pattern |-> << <<Lit("spécialité"), WsS, Lit(":"), WsS>> >>,
      field |-> "specialty", transform |-> "none"],
     [pattern |-> dateRegex, field |-> "submissionDate", transform |-> "date"],
     [pattern |-> << <<Lit("université"), WsP>> >>,
      field |-> "university", transform |-> "none"],
     [pattern |-> << <<Lit("faculté des"), WsP>> >>,
      field |-> "faculty", transform |-> "faculty"],
     [pattern |-> << <<Lit("département"), WsP>> >>,
      field |-> "department", transform |-> "department"],
     [pattern |-> << <<Lit("année universitaire"), WsP>> >>,
      field |-> "academicYear", transform |-> "none"] >>

\* the role alternatives of juryRoleRegex
simpleJuryRoles ==
  << <<Lit("présidente de jury")>>, <<Lit("examinateurs")>>,
     <<Lit("directrice de thèse")>>, <<Lit("co-directrice de thèse")>> >>

\* mainSectionRegex: a numeral of the list, then a dot
mainSectionRegex ==
  << <<Lit("I.")>>, <<Lit("V.")>>, <<Lit("X.")>>, <<Lit("II.")>>, <<Lit("III.")>>,
     <<Lit("IV.")>>, <<Lit("VI.")>>, <<Lit("VII.")>>, <<Lit("VIII.")>>, <<Lit("IX.")>> >>

simpleAffiliationNoise ==
  << <<Lit(", UDL Sidi Bel Abbès")>>, <<Lit("Pr, ")>>, <<Lit("M.C.A, ")>> >>

\* the result object as initialized
simpleResult ==
  [title |-> "", author |-> "", university |-> "", faculty |-> "",
   department |-> "", specialty |-> "", submissionDate |-> "",
   academicYear |-> "", jury |-> <<>>, abstracts |-> <<>>,
   acknowledgments |-> "", dedications |-> "", chapters |-> <<>>,
   bibliography |-> <<>>, listOfFigures |-> <<>>, listOfTables |-> <<>>]

\* the locals before the loop
simpleLocals(ls) ==
  [pc |-> "loop", lines |-> ls, idx |-> 1, currentSection |-> "meta",
   contentBuffer |-> "", currentChapter |-> Null, isCapturingTitle |-> FALSE,
   result |-> simpleResult]

\* the chapter that is pushed: its content and the buffer, trimmed
closedChapter(chapter, contentBuffer) ==
  [chapter EXCEPT !.content = Trim(@ \o "\n" \o contentBuffer)]

\* a push that loses the buffered lines
pushCurrentChapterBare(s) ==
  IF s.currentChapter # Null
  THEN [s EXCEPT !.result.chapters = Append(@, s.currentChapter)]
  ELSE s

\* the locals with the open chapter pushed, when there is one
pushCurrentChapter(s) ==
  IF s.currentChapter # Null
  THEN [s EXCEPT !.result.chapters = Append(@, closedChapter(s.currentChapter, s.contentBuffer))]
  ELSE s

RECURSIVE simpleJurySearch(_, _)
\* line.match(juryRoleRegex): leftmost match at or after i
simpleJurySearch(low, i) ==
  IF i > Len(low) THEN NoJuryMatch
  ELSE JuryFound(JuryAltAt(low, i, simpleJuryRoles), simpleJurySearch(low, i + 1))

\* the member pushed for the match m of juryRoleRegex
simpleJuryMember(line, m) ==
  [role        |-> Trim(SubSeq(line, m.from, m.roleEnd - 1)),
   name        |-> Trim(SubSeq(line, m.nameFrom, m.nameTo - 1)),
   affiliation |-> Trim(RemoveAll(SubSeq(line, m.affFrom, Len(line)),
                                  SubSeq(line, m.affFrom, Len(line)),
                                  simpleAffiliationNoise))]

\* the last branch of the meta case
simpleJury(line, s, m) ==
  IF m = NoJuryMatch THEN s
  ELSE [s EXCEPT !.result.jury = Append(@, simpleJuryMember(line, m))]

\* index of the first regular expression of the chain that matches, 0 when none
FirstSimplePattern(low) ==
  FirstOf({k \in 1..Len(simplePatterns) : Test(low, simplePatterns[k].pattern)})

\* the meta case once the index k of the matching regular expression is known
simpleMeta(line, low, s, k) ==
  IF k # 0
  THEN [s EXCEPT !.result = setField(@, simplePatterns[k],
                                     extractMatch(line, low, simplePatterns[k].pattern))]
  ELSE simpleJury(line, s, simpleJurySearch(low, 1))

\* the body case
simpleBody(line, s) ==
  IF TestAt1(line, mainSectionRegex)
  THEN [pushCurrentChapter(s) EXCEPT
          !.currentChapter = [title |-> line, content |-> "", sections |-> <<>>],
          !.contentBuffer = ""]
  ELSE [s EXCEPT !.contentBuffer = @ \o line \o "\n"]

simpleAbstract(s, lang, line) ==
  [s EXCEPT !.result.abstracts = SetAbstract(@, lang, AbstractOf(@, lang) \o line \o "\n")]

\* switch (currentSection)
simpleContent(line, low, s) ==
  CASE s.currentSection = "meta" -> simpleMeta(line, low, s, FirstSimplePattern(low))
    [] s.currentSection = "acknowledgments" ->
         [s EXCEPT !.result.acknowledgments = @ \o line \o "\n"]
    [] s.currentSection = "dedications" ->
         [s EXCEPT !.result.dedications = @ \o line \o "\n"]
    [] s.currentSection = "abstract-fr" -> simpleAbstract(s, "French", line)
    [] s.currentSection = "abstract-en" -> simpleAbstract(s, "English", line)
    [] s.currentSection = "abstract-ar" -> simpleAbstract(s, "Arabic", line)
    [] s.currentSection = "listOfFigures" ->
         IF TestAt1(low, << <<Lit("figure")>> >>)
         THEN [s EXCEPT !.result.listOfFigures = Append(@, line)] ELSE s
    [] s.currentSection = "listOfTables" ->
         IF TestAt1(low, << <<Lit("tableau")>> >>)
         THEN [s EXCEPT !.result.listOfTables = Append(@, line)] ELSE s
    [] s.currentSection = "body" -> simpleBody(line, s)
    [] s.currentSection = "bibliography" ->
         IF Len(line) > MinBibliographyLength
         THEN [s EXCEPT !.result.bibliography = Append(@, line)] ELSE s

\* from the Références test to the switch; s is the locals after the test of
\* the introduction line
simpleBoundary(line, low, s) ==
  IF TestAt1(low, simpleReferences)
  THEN [pushCurrentChapter(s) EXCEPT
          !.currentChapter = Null,
          !.contentBuffer = IF s.currentChapter # Null THEN "" ELSE @,
          !.currentSection = "bibliography",
          !.isCapturingTitle = FALSE]
  ELSE IF Test(low, simpleTitleMarker)
  THEN [s EXCEPT !.isCapturingTitle = TRUE,
                 !.result.title = @ \o " " \o Trim(RemoveFirst(line, low, simpleTitleMarker))]
  ELSE IF s.isCapturingTitle /\ ~Test(low, dateRegex)
  THEN [s EXCEPT !.result.title = @ \o " " \o line]
  ELSE simpleContent(line, low,
                     IF s.isCapturingTitle
                     THEN [s EXCEPT !.isCapturingTitle = FALSE, !.result.title = Trim(@)]
                     ELSE s)

\* the test of the introduction line, which does not end in continue
simpleIntro(low, s) ==
  IF TestAt1(low, simpleIntroduction)
  THEN [s EXCEPT !.currentSection = "body", !.isCapturingTitle = FALSE]
  ELSE s

\* the loop body once the index k of the matching section switch is known
simpleSwitch(line, low, s, k) ==
  IF k # 0
  THEN [s EXCEPT !.currentSection = simpleSections[k].name, !.isCapturingTitle = FALSE]
  ELSE simpleBoundary(line, low, simpleIntro(low, s))

\* the loop body for a non-empty line; low is Lower(line)
simpleCounted(line, low, s) ==
  simpleSwitch(line, low, s,
               FirstOf({k \in 1..Len(simpleSections) : SectionTest(simpleSections[k], low)}))

\* the loop body
simpleLine(line, s) == IF line = "" THEN s ELSE simpleCounted(line, Lower(line), s)

\* the split into trimmed lines and the initialization of the locals
SimpleEnter ==
  /\ simple.pc = "start"
  /\ simple' = simpleLocals(trimmedLines(Split(textContent)))
  /\ UNCHANGED <<textContent, pc, lineVars, htmlVars, calls, dom, clone, domText, legacy, thesis, upload>>

\* one iteration of the loop over lines
SimpleLineStep ==
  /\ simple.pc = "loop"
  /\ simple.idx <= Len(simple.lines)
  /\ simple' = [simpleLine(simple.lines[simple.idx], simple) EXCEPT !.idx = @ + 1]
  /\ UNCHANGED <<textContent, pc, lineVars, htmlVars, calls, dom, clone, domText, legacy, thesis, upload>>

\* after the loop: the open chapter is pushed and result is returned
SimpleReturn ==
  /\ simple.pc = "loop"
  /\ simple.idx > Len(simple.lines)
  /\ simple' = [pushCurrentChapter(simple) EXCEPT !.pc = "done"]
  /\ UNCHANGED <<textContent, pc, lineVars, htmlVars, calls, dom, clone, domText, legacy, thesis, upload>>

NextSimple == SimpleEnter \/ SimpleLineStep \/ SimpleReturn

SimpleLineAlphabet ==
  <<"", "I. Introduction", "II. Methodology", "Some opening text.", "Références",
    "Examinateurs: B. Roy", "Résumé">>

MaxSimpleLines == 3

SimpleTexts ==
  ExampleTexts \cup UNION {TextsOver(SimpleLineAlphabet, n) : n \in 1..MaxSimpleLines}

\* a call of the parser of utils/thesisParser.ts
InitSimple ==
  /\ textContent \in SimpleTexts
  /\ config = [strictMode |-> FALSE, extractMetadata |-> TRUE]
  /\ faults = {}
  /\ pc = "idle"
  /\ Start
  /\ simple = [pc |-> "start"]
  /\ calls = <<>>
  /\ dom = <<>>
  /\ clone = <<>>
  /\ domText = ""
  /\ legacy = Idle
  /\ StartMore

SpecSimple == InitSimple /\ [][NextSimple]_vars

\* ------------------------------------------------------------------------
\* Properties of the jury, the abstracts and the metadata
\* ------------------------------------------------------------------------
\* role, name and affiliation of every member of the list are non-empty
MembersComplete(jury) ==
  \A k \in 1..Len(jury) :
    jury[k].role # "" /\ jury[k].name # "" /\ jury[k].affiliation # ""

\* the call of parseThesisContent (ParseResult version) returned a document
ReturnedDocument ==
  /\ pc = "done"
  /\ \/ ret.success
     \/ "partialData" \in DOMAIN ret

\* C13: every jury member of every returned document, of the ParseResult
\* parser and of the parser of utils/thesisParser.ts, has a non-empty role, a
\* non-empty name and a non-empty affiliation
JuryMembersComplete ==
  /\ ReturnedDocument => MembersComplete(Document.jury)
  /\ simple.pc = "done" => MembersComplete(simple.result.jury)

\* ------------------------------------------------------------------------
\* Both parsers of plain text on the same inputs: the call is either the
\* ParseResult parser or the parser of utils/thesisParser.ts
\* ------------------------------------------------------------------------
NextEither == Next \/ NextSimple

\* config = {}: strictMode is undefined, extractMetadata is not false
DefaultConfig == [strictMode |-> FALSE, extractMetadata |-> TRUE]

\* one of the two parsers is called with the text, the ParseResult parser
\* with a config as well
CallEither(texts, cfgs) ==
  /\ textContent \in texts
  /\ faults = {}
  /\ Start
  /\ calls = <<>>
  /\ dom = <<>>
  /\ clone = <<>>
  /\ domText = ""
  /\ legacy = Idle
  /\ StartMore
  /\ \/ pc = "start" /\ config \in cfgs /\ simple = [pc |-> "idle"]
     \/ pc = "idle" /\ config = DefaultConfig /\ simple = [pc |-> "start"]

AbstractLineAlphabet == <<"Résumé", "Abstract", ArabicAbstractHeader, "Un texte.">>

MaxAbstractLines == 4

AbstractTexts == UNION {TextsOver(AbstractLineAlphabet, n) : n \in 1..MaxAbstractLines}

InitAbstracts == CallEither(AbstractTexts, Configs)

SpecAbstracts == InitAbstracts /\ [][NextEither]_vars

AbstractLanguages == {"French", "English", "Arabic"}

\* only the three languages, one entry per language, no entry without text
AbstractsWellFormed(abstracts) ==
  /\ \A k \in 1..Len(abstracts) :
       abstracts[k].language \in AbstractLanguages /\ Trim(abstracts[k].text) # ""
  /\ \A k, q \in 1..Len(abstracts) : abstracts[k].language = abstracts[q].language => k = q

\* the header lines of the three abstract sections
AbstractHeaders ==
  [French |-> "Résumé", English |-> "Abstract", Arabic |-> ArabicAbstractHeader]

\* ls holds the header of the language directly followed by a content line
HeaderWithContent(ls, lang) ==
  \E k \in 1..(Len(ls) - 1) :
    ls[k] = AbstractHeaders[lang] /\ ls[k + 1] = "Un texte."

\* the abstracts have an entry for the language
HasAbstract(abstracts, lang) == \E k \in 1..Len(abstracts) : abstracts[k].language = lang

\* C14: in every state of a parse, and in the document it returns, the
\* abstracts hold only the languages French, English and Arabic, at most one
\* entry per language, and an entry only with non-empty text; on texts made of
\* abstract headers and content lines a language has an entry exactly when
\* one of its header lines is directly followed by a content line, so a
\* header followed by no content line creates no entry
AbstractsOnlyWithText ==
  /\ AbstractsWellFormed(result.abstracts)
  /\ simple.pc \in {"loop", "done"} => AbstractsWellFormed(simple.result.abstracts)
  /\ ReturnedDocument =>
       /\ AbstractsWellFormed(Document.abstracts)
       /\ \A lang \in AbstractLanguages :
            HasAbstract(Document.abstracts, lang) <=> HeaderWithContent(lines, lang)
  /\ simple.pc = "done" =>
       \A lang \in AbstractLanguages :
         HasAbstract(simple.result.abstracts, lang) <=> HeaderWithContent(simple.lines, lang)

\* C14 witness: a French header with two content lines and an English header
\* with none gave one French entry and no English entry
AbstractsOnlyWithTextWitness ==
  /\ ReturnedDocument
  /\ textContent = "Résumé\nUn texte.\nUn texte.\nAbstract"
  /\ Document.abstracts = << [language |-> "French", text |-> "Un texte.\nUn texte."] >>

\* max(1, ceiling(words / 250))
PagesFor(words) ==
  IF (words + WordsPerPage - 1) \div WordsPerPage >= 1
  THEN (words + WordsPerPage - 1) \div WordsPerPage ELSE 1

\* C15: the metadata of every returned document has pageCount equal to
\* max(1, ceiling(wordCount / 250)), with wordCount the number of
\* whitespace-separated tokens of the title, acknowledgments, dedications,
\* abstract texts, chapter contents and bibliography entries joined together;
\* so pageCount is at least 1
PageCountFloored ==
  ReturnedDocument =>
    /\ Document.metadata.wordCount = countWords(Join(allContent(Document), " "))
    /\ Document.metadata.pageCount = PagesFor(Document.metadata.wordCount)
    /\ Document.metadata.pageCount >= 1

\* ------------------------------------------------------------------------
\* Two calls of parseThesisContent in progress at once: calls[i] holds the
\* arguments and the locals of call i, and a step runs one call up to its next
\* line
\* ------------------------------------------------------------------------
\* a call that has not started
newCall(text, cfg) ==
  [text |-> text, config |-> cfg, pc |-> "start", lines |-> <<>>, idx |-> 0,
   state |-> createInitialState, result |-> createDefaultThesisData, ret |-> Idle]

\* the call after the validation of data and the return
finishCall(c, st, data) ==
  [c EXCEPT !.state = st, !.result = data, !.pc = "done",
            !.ret = returnValue(validateThesisData(data), c.config, data, st.warnings)]

\* the call after the loop, f being the parse with the last chapter closed
returnCall(c, f) == finishCall(c, f.state, withMetadata(c.config, f.result))

\* the call after one iteration of the loop that left the parse r
lineCall(c, r) == [c EXCEPT !.state = r.state, !.result = r.result, !.idx = @ + 1]

\* the next step of the call c, from its own arguments and locals
callStep(c) ==
  IF c.pc = "start"
  THEN IF IsEmptyInput(c.text)
       THEN [c EXCEPT !.pc = "done",
                      !.ret = [success |-> FALSE,
                               error |-> "Empty or invalid text content provided"]]
       ELSE [c EXCEPT !.pc = "loop", !.lines = trimmedLines(Split(c.text)), !.idx = 1]
  ELSE IF c.idx <= Len(c.lines)
  THEN lineCall(c, processLine(c.lines[c.idx], c.state, c.result))
  ELSE returnCall(c, finalizeCurrentChapter(c.state, c.result))

\* a step of call i when the calls shared one ParserState
stepCallSharedState(cs, i) ==
  [k \in 1..Len(cs) |->
     IF k = i THEN callStep(cs[i])
     ELSE [cs[k] EXCEPT !.state = callStep(cs[i]).state]]

\* a step of call i: state and result are locals of the call
stepCall(cs, i) == [cs EXCEPT ![i] = callStep(cs[i])]

\* call i takes its next step
CallStep(i) ==
  /\ calls[i].pc # "done"
  /\ calls' = stepCall(calls, i)
  /\ UNCHANGED <<textContent, pc, lineVars, htmlVars, simple, dom, clone, domText, legacy, thesis, upload>>

NextCalls == \E i \in 1..Len(calls) : CallStep(i)

CallLineAlphabet == <<"Intitulé Deep Parsing", "Examinateur: , UDL">>

MaxCallLines == 2

CallExamples == {"", "Intitulé Deep Parsing\nSoutenue le : 12.03.2024\nRésumé\nUn texte."}

CallTexts == CallExamples \cup UNION {TextsOver(CallLineAlphabet, n) : n \in 1..MaxCallLines}

CallConfigs == [strictMode : BOOLEAN, extractMetadata : {TRUE}]

InitCalls ==
  /\ textContent = ""
  /\ config = [strictMode |-> FALSE, extractMetadata |-> TRUE]
  /\ faults = {}
  /\ pc = "idle"
  /\ Start
  /\ simple = [pc |-> "idle"]
  /\ dom = <<>>
  /\ clone = <<>>
  /\ domText = ""
  /\ legacy = Idle
  /\ StartMore
  /\ \E t1, t2 \in CallTexts, c1, c2 \in CallConfigs :
       calls = <<newCall(t1, c1), newCall(t2, c2)>>

SpecCalls == InitCalls /\ [][NextCalls]_vars

RECURSIVE RunAlone(_)
\* the ParseResult of the call c run to its end with no other call in progress
RunAlone(c) == IF c.pc = "done" THEN c.ret ELSE RunAlone(callStep(c))

Node(tag, text) == [tag |-> tag, text |-> text, items |-> <<>>, rows |-> <<>>]

TextNode(text) == Node("#text", text)

RECURSIVE Concat(_)
\* the strings of the sequence, one after the other
Concat(parts) == IF parts = <<>> THEN "" ELSE Head(parts) \o Concat(Tail(parts))

\* Node.textContent: the text of the node and of all its descendants, those
\* of script and style elements included
textContentOf(node) ==
  node.text \o Concat(node.items) \o Concat([r \in 1..Len(node.rows) |-> Concat(node.rows[r])])

\* br.replaceWith('\n')
convertBr(node) == IF node.tag = "br" THEN TextNode("\n") ELSE node

\* p.replaceWith(createTextNode('\n\n' + p.textContent))
convertParagraph(node) ==
  IF node.tag = "p" THEN TextNode("\n\n" \o textContentOf(node)) ELSE node

\* the bullet character of unordered lists (U+2022), written as a middle dot
BulletMark == "· "

\* the bullet of item k of the list
bullet(tag, k) == IF tag = "ol" THEN ToString(k) \o ". " ELSE BulletMark

\* list.replaceWith(createTextNode(listText))
convertList(node) ==
  IF node.tag \in {"ul", "ol"}
  THEN TextNode("\n" \o Concat([k \in 1..Len(node.items) |->
                                  bullet(node.tag, k) \o node.items[k] \o "\n"]))
  ELSE node

\* table.replaceWith(createTextNode(tableText))
convertTable(node) ==
  IF node.tag = "table"
  THEN TextNode("\n" \o Concat([r \in 1..Len(node.rows) |-> Join(node.rows[r], " | ") \o "\n"]))
  ELSE node

NonContentTags == {"script", "style", "meta", "link"}

IsContentNode(node) == node.tag \notin NonContentTags

\* querySelectorAll('script, style, meta, link').forEach(el => el.remove())
removeNonContent(nodes) == SelectSeq(nodes, IsContentNode)

\* cleanText of parseHtmlThesis
cleanText(text) == Trim(CollapseWs(text))

MinParagraphLength == 20

\* the contribution of one node to the content built by extractBodyContent
paragraphText(node) ==
  IF node.tag \in {"p", "div", "section", "article"}
     /\ Len(cleanText(textContentOf(node))) > MinParagraphLength
  THEN cleanText(textContentOf(node)) \o "\n\n"
  ELSE ""

IsNotEmpty(line) == Len(line) > 0

\* bodyText.split('\n').map(line => line.trim()).filter(line => line.length > 0)
lineStream(text) == SelectSeq(trimmedLines(Split(text)), IsNotEmpty)

domFrame ==
  <<textContent, config, faults, idx, state, result, ret, htmlVars, simple, calls, legacy,
    thesis, upload>>

\* extractTextContent: the clone, and its br elements replaced
CloneAndConvertBr ==
  /\ pc = "extractTextContent"
  /\ clone' = [k \in 1..Len(dom) |-> convertBr(dom[k])]
  /\ pc' = "paragraphs"
  /\ UNCHANGED <<dom, domText, lines, domFrame>>

ConvertParagraphs ==
  /\ pc = "paragraphs"
  /\ clone' = [k \in 1..Len(clone) |-> convertParagraph(clone[k])]
  /\ pc' = "lists"
  /\ UNCHANGED <<dom, domText, lines, domFrame>>

ConvertLists ==
  /\ pc = "lists"
  /\ clone' = [k \in 1..Len(clone) |-> convertList(clone[k])]
  /\ pc' = "tables"
  /\ UNCHANGED <<dom, domText, lines, domFrame>>

ConvertTables ==
  /\ pc = "tables"
  /\ clone' = [k \in 1..Len(clone) |-> convertTable(clone[k])]
  /\ pc' = "textContent"
  /\ UNCHANGED <<dom, domText, lines, domFrame>>

\* return clone.textContent?.trim() || ''
ReturnTextContent ==
  /\ pc = "textContent"
  /\ domText' = Trim(Concat([k \in 1..Len(clone) |-> textContentOf(clone[k])]))
  /\ pc' = "text"
  /\ UNCHANGED <<dom, clone, lines, domFrame>>

\* parseHtmlThesis: bodyText and the lines that its loop walks
BodyTextLines ==
  /\ pc = "bodyText"
  /\ domText' = Concat([k \in 1..Len(dom) |-> textContentOf(dom[k])])
  /\ lines' = lineStream(domText')
  /\ pc' = "lines"
  /\ UNCHANGED <<dom, clone, domFrame>>

\* extractBodyContent of parseHtmlThesis
ExtractBodyContent ==
  /\ pc = "extractBodyContent"
  /\ clone' = removeNonContent(dom)
  /\ domText' = Trim(Concat([k \in 1..Len(clone') |-> paragraphText(clone'[k])]))
  /\ pc' = "content"
  /\ UNCHANGED <<dom, lines, domFrame>>

NextHtmlText ==
  \/ CloneAndConvertBr \/ ConvertParagraphs \/ ConvertLists \/ ConvertTables
  \/ ReturnTextContent \/ BodyTextLines \/ ExtractBodyContent

ScriptText == "var x = 1;"

StyleText == "h1 { color: red }"

NodeAlphabet ==
  <<TextNode("Intro text.\n"), Node("br", ""), Node("p", "I. Introduction"),
    Node("div", "Some opening text of the chapter."), Node("script", ScriptText),
    Node("style", StyleText), Node("meta", ""),
    [tag |-> "ul", text |-> "", items |-> <<"one", "two">>, rows |-> <<>>],
    [tag |-> "ol", text |-> "", items |-> <<"one", "two">>, rows |-> <<>>],
    [tag |-> "table", text |-> "", items |-> <<>>, rows |-> << <<"a", "b">>, <<"c", "d">> >>]>>

MaxNodes == 2

RECURSIVE NodesOfLength(_)
\* the bodies of n child nodes
NodesOfLength(n) ==
  IF n = 0 THEN {<<>>}
  ELSE {Append(b, NodeAlphabet[k]) : b \in NodesOfLength(n - 1), k \in 1..Len(NodeAlphabet)}

Bodies == UNION {NodesOfLength(n) : n \in 0..MaxNodes}

InitHtmlText ==
  /\ textContent = ""
  /\ config = [strictMode |-> FALSE, extractMetadata |-> TRUE]
  /\ faults = {}
  /\ Start
  /\ simple = [pc |-> "idle"]
  /\ calls = <<>>
  /\ legacy = Idle
  /\ StartMore
  /\ dom \in Bodies
  /\ clone = <<>>
  /\ domText = ""
  /\ pc \in {"extractTextContent", "bodyText", "extractBodyContent"}

SpecHtmlText == InitHtmlText /\ [][NextHtmlText]_vars

\* the text t occurs in s
Contains(s, t) == \E q \in 1..(Len(s) - Len(t) + 1) : SubSeq(s, q, q + Len(t) - 1) = t

\* the texts of the script, style, meta and link elements of the body
NonContentTexts ==
  {textContentOf(dom[k]) : k \in {q \in 1..Len(dom) : ~IsContentNode(dom[q])}} \ {""}

\* C17: the text that extractTextContent returns and the text and lines that
\* the line loop of parseHtmlThesis walks contain no text of a script, style,
\* meta or link element of the body
NoScriptOrStyleText ==
  pc \in {"text", "lines"} =>
    \A t \in NonContentTexts :
      /\ ~Contains(domText, t)
      /\ \A k \in 1..Len(lines) : ~Contains(lines[k], t)

\* ------------------------------------------------------------------------
\* parseThesisContentLegacy: parseThesisContent with the default config, then
\* the document, the partial document or a default document
\* ------------------------------------------------------------------------
\* the fallback without the default document
legacyValueNoDefault(r) ==
  IF r.success THEN r.data
  ELSE IF "partialData" \in DOMAIN r THEN r.partialData
  ELSE Null

\* result.success ? result.data : (result.partialData || createDefaultThesisData())
legacyValue(r) ==
  IF r.success THEN r.data
  ELSE IF "partialData" \in DOMAIN r THEN r.partialData
  ELSE createDefaultThesisData

\* the return of parseThesisContentLegacy once parseThesisContent returned
LegacyReturn ==
  /\ pc = "done"
  /\ legacy' = legacyValue(ret)
  /\ pc' = "legacy"
  /\ UNCHANGED <<textContent, lineVars, htmlVars, simple, calls, dom, clone, domText,
                 thesis, upload>>

NextLegacy == NextEither \/ LegacyReturn

\* a call of parseThesisContentLegacy or of the parser of utils/thesisParser.ts
MaxLegacyLines == 2

LegacyTexts ==
  ExampleTexts \cup UNION {TextsOver(SimpleLineAlphabet, n) : n \in 1..MaxLegacyLines}

InitLegacy == CallEither(LegacyTexts, {DefaultConfig})

SpecLegacy == InitLegacy /\ [][NextLegacy]_vars

JuryList == Seq([role : STRING, name : STRING, affiliation : STRING])

ChapterList ==
  Seq([title : STRING, content : STRING,
       sections : Seq([title : STRING, content : STRING])])

AbstractsMap == Seq([language : AbstractLanguages, text : STRING])

TextFields ==
  {"title", "author", "university", "faculty", "department", "specialty",
   "submissionDate", "academicYear", "acknowledgments", "dedications"}

\* d is a ThesisData: text fields are strings, list fields lists, abstracts a map
IsThesisData(d) ==
  /\ d # Null
  /\ TextFields \subseteq DOMAIN d
  /\ \A f \in TextFields : d[f] \in STRING
  /\ d.jury \in JuryList
  /\ d.chapters \in ChapterList
  /\ d.bibliography \in Seq(STRING)
  /\ d.listOfFigures \in Seq(STRING)
  /\ d.listOfTables \in Seq(STRING)
  /\ d.abstracts \in AbstractsMap

\* C18: for every input string, the empty one included, the parser of
\* utils/thesisParser.ts and parseThesisContentLegacy return a ThesisData,
\* never null: every text field is a string, jury, chapters, bibliography,
\* listOfFigures and listOfTables are lists and abstracts is a map
AlwaysThesisData ==
  /\ pc = "legacy" => IsThesisData(legacy)
  /\ simple.pc = "done" => IsThesisData(simple.result)

\* C18 witness: parseThesisContentLegacy returned the default document for
\* the empty input, whose parse failed without a partial document
AlwaysThesisDataWitness ==
  /\ pc = "legacy"
  /\ textContent = ""
  /\ ret.success = FALSE
  /\ "partialData" \notin DOMAIN ret
  /\ legacy = createDefaultThesisData

\* ------------------------------------------------------------------------
\* Properties of the segmentation
\* ------------------------------------------------------------------------
\* the sections that the switch of processSectionContent has a case for
SectionStates ==
  {"meta", "acknowledgments", "dedications", "abstractFr", "abstractEn", "abstractAr",
   "listOfFigures", "listOfTables", "body", "bibliography"}

\* C19: in every state of a parse the current section is one of meta,
\* acknowledgments, dedications, the three abstracts, list of figures, list of
\* tables, body and bibliography, and no line was routed to the unknown-section
\* branch (no warning reports an unknown section)
SectionAlwaysKnown ==
  /\ state.currentSection \in SectionStates
  /\ \A k \in 1..Len(state.warnings) : ~Mentions(state.warnings[k], "unknown section")

\* the titles of a list of chapters
TitlesOf(chs) == [k \in 1..Len(chs) |-> chs[k].title]

\* the titles of the chapters opened so far by the call of the parser of
\* utils/thesisParser.ts: the closed ones, then the open one
OpenedTitles(s) ==
  TitlesOf(s.result.chapters)
  \o (IF s.pc = "loop" /\ s.currentChapter # Null THEN <<s.currentChapter.title>> ELSE <<>>)

\* the line reaches the switch: it is no section switch, no Références line,
\* no title marker and no continuation of the title
ReachesSwitch(s, line, low) ==
  /\ line # ""
  /\ \A k \in 1..Len(simpleSections) : ~SectionTest(simpleSections[k], low)
  /\ ~TestAt1(low, simpleReferences)
  /\ ~Test(low, simpleTitleMarker)
  /\ \/ ~s.isCapturingTitle
     \/ TestAt1(low, simpleIntroduction)
     \/ Test(low, dateRegex)

\* the line is handled in body state
InBodyState(s, low) == s.currentSection = "body" \/ TestAt1(low, simpleIntroduction)

\* the line is a chapter heading handled in body state
HeadingInBody(s, line, low) ==
  ReachesSwitch(s, line, low) /\ InBodyState(s, low) /\ TestAt1(line, mainSectionRegex)

\* the open chapter as it is closed: its title, and its buffered lines
ClosedNow(s) ==
  [title |-> s.currentChapter.title, content |-> Trim(s.contentBuffer), sections |-> <<>>]

\* the step of the loop at the line: a chapter heading in body state opens a
\* chapter titled with the line and closes the open one with its buffer, any
\* other line of the body joins the buffer, and no other line opens or closes
\* a chapter, except the Références line, which closes the open one
LoopStepKeepsChapters(s, t, line, low) ==
  /\ OpenedTitles(t) = IF HeadingInBody(s, line, low) THEN Append(OpenedTitles(s), line)
                       ELSE OpenedTitles(s)
  /\ \/ t.result.chapters = s.result.chapters
     \/ /\ s.currentChapter # Null
        /\ HeadingInBody(s, line, low) \/ TestAt1(low, simpleReferences)
        /\ t.result.chapters = Append(s.result.chapters, ClosedNow(s))
  /\ ReachesSwitch(s, line, low) /\ InBodyState(s, low) /\ ~TestAt1(line, mainSectionRegex)
       => t.contentBuffer = s.contentBuffer \o line \o "\n"

\* the return: the chapters of the document are the opened ones, the open one
\* being closed with its buffer
ReturnKeepsChapters(s, t) ==
  /\ TitlesOf(t.result.chapters) = OpenedTitles(s)
  /\ s.currentChapter # Null =>
       t.result.chapters = Append(s.result.chapters, ClosedNow(s))
  /\ s.currentChapter = Null => t.result.chapters = s.result.chapters

\* the text starts the body and has no section, reference or title line after
IsSimpleBodyInput(ls) ==
  /\ Len(ls) >= 1
  /\ TestAt1(Lower(ls[1]), simpleIntroduction)
  /\ \A k \in 2..Len(ls) :
       ls[k] = "" \/ ReachesSwitch([isCapturingTitle |-> FALSE], ls[k], Lower(ls[k]))

\* the indices of the chapter heading lines
HeadingIndices(ls) == {k \in 1..Len(ls) : TestAt1(ls[k], mainSectionRegex)}

\* the chapter of the heading at h that extends to the line before next
ChapterBetween(ls, h, next) ==
  [title |-> ls[h],
   content |-> Join(SelectSeq(SubSeq(ls, h + 1, next - 1), IsNotEmpty), "\n"),
   sections |-> <<>>]

\* the chapter of the heading at h: up to the next heading or the end
ChapterFrom(ls, h, later) ==
  ChapterBetween(ls, h, IF later = {} THEN Len(ls) + 1
                        ELSE CHOOSE k \in later : \A q \in later : k <= q)

\* the chapters of a body: one per heading line, in order, each with the
\* lines up to the next heading
ChaptersOf(ls) ==
  [j \in 1..Cardinality(HeadingIndices(ls)) |->
     \* the j-th heading
     ChapterFrom(ls,
                 CHOOSE h \in HeadingIndices(ls) :
                   Cardinality({x \in HeadingIndices(ls) : x <= h}) = j,
                 {x \in HeadingIndices(ls) :
                    Cardinality({y \in HeadingIndices(ls) : y <= x}) > j})]

\* C20: the chapters of the document returned by the parser of
\* utils/thesisParser.ts are the chapters opened by the chapter heading lines
\* handled in body state, once each, in the order of the lines and titled
\* with the line; every other body line joins the buffer of the open chapter;
\* a chapter is closed with its buffered lines, at the next heading, at the
\* Références line or at the end of the input, so that a text that starts
\* the body yields one chapter per heading line with all the lines up to the
\* next heading
ChaptersAreTheOpenedOnes ==
  /\ [][SimpleLineStep =>
          LoopStepKeepsChapters(simple, simple', simple.lines[simple.idx],
                                Lower(simple.lines[simple.idx]))]_vars
  /\ [][SimpleReturn => ReturnKeepsChapters(simple, simple')]_vars
  /\ [](simple.pc = "done" /\ IsSimpleBodyInput(simple.lines) =>
          simple.result.chapters = ChaptersOf(simple.lines))

\* C20 witness: the example body returned its two chapters, the second one
\* closed at the end of the input with its buffered line
ChaptersAreTheOpenedOnesWitness ==
  /\ simple.pc = "done"
  /\ textContent = BodyExample
  /\ TitlesOf(simple.result.chapters) = <<"I. Introduction", "II. Methodology">>
  /\ simple.result.chapters[1].content = "Some opening text.\n1.1 Background\nContext text."
  /\ simple.result.chapters[2].content = "Approach text."

\* ------------------------------------------------------------------------
\* Properties of the section boundaries and of the title, on both parsers
\* of plain text
\* ------------------------------------------------------------------------
BoundaryLineAlphabet ==
  <<"I. Introduction", "i. introduction", "Some opening text.", "Résumé",
    "Intitulé Deep Parsing", "Références", "Soutenue le : 12.03.2024",
    "Voir la Table des matières">>

MaxBoundaryLines == 3

BoundaryTexts == UNION {TextsOver(BoundaryLineAlphabet, n) : n \in 1..MaxBoundaryLines}

InitBoundary == CallEither(BoundaryTexts, {DefaultConfig})

SpecBoundary == InitBoundary /\ [][NextEither]_vars

\* the sections whose header pattern of PARSING_PATTERNS.sections matches
BoundaryNames(low) ==
  {sections[k].name : k \in {q \in 1..Len(sections) : SectionTest(sections[q], low)}}

\* the sections whose switch of utils/thesisParser.ts matches the line
SimpleBoundaryNames(low) ==
  {simpleSections[k].name :
     k \in {q \in 1..Len(simpleSections) : SectionTest(simpleSections[q], low)}}
  \cup (IF TestAt1(low, simpleIntroduction) THEN {"body"} ELSE {})
  \cup (IF TestAt1(low, simpleReferences) THEN {"bibliography"} ELSE {})

\* nothing was appended to the acknowledgments, the dedications, an abstract,
\* the lists of figures and tables or the bibliography
KeepsAccumulators(r, t) ==
  /\ t.acknowledgments = r.acknowledgments
  /\ t.dedications = r.dedications
  /\ t.abstracts = r.abstracts
  /\ t.listOfFigures = r.listOfFigures
  /\ t.listOfTables = r.listOfTables
  /\ t.bibliography = r.bibliography

\* the chapters are the same, or the open chapter was closed with the content
\* buffered before the line
KeepsChapterContent(chs, chs2, chapter, content) ==
  \/ chs2 = chs
  \/ /\ chapter # Null
     /\ chs2 = Append(chs, [title |-> chapter.title, content |-> content,
                            sections |-> chapter.sections])

\* the line at the loop is a pure control signal for the ParseResult parser
BoundaryIsControl(low) ==
  BoundaryNames(low) # {} =>
    /\ state'.currentSection \in BoundaryNames(low)
    /\ KeepsAccumulators(result, result')
    /\ state'.contentBuffer \in {state.contentBuffer, ""}
    /\ KeepsChapterContent(result.chapters, result'.chapters, state.currentChapter,
                           normalize(state.contentBuffer))

\* the line at the loop is a pure control signal for the parser of
\* utils/thesisParser.ts
SimpleBoundaryIsControl(low) ==
  SimpleBoundaryNames(low) # {} =>
    /\ simple'.currentSection \in SimpleBoundaryNames(low)
    /\ KeepsAccumulators(simple.result, simple'.result)
    /\ simple'.contentBuffer \in {simple.contentBuffer, ""}
    /\ KeepsChapterContent(simple.result.chapters, simple'.result.chapters,
                           simple.currentChapter, Trim(simple.contentBuffer))

\* C21: a line that matches a section-boundary matcher is only a control
\* signal: after the step the current section is the section of a matcher the
\* line matches, and the line was appended neither to the acknowledgments, the
\* dedications, an abstract, the lists of figures and tables, the bibliography
\* nor to the content of a chapter (the buffer of the open chapter is the same
\* or was emptied, and a chapter closed by the step holds the content buffered
\* before the line)
BoundaryLineIsControlSignal ==
  /\ [][LineStep => \A low \in {Lower(lines[idx])} : BoundaryIsControl(low)]_vars
  /\ [][SimpleLineStep =>
          \A low \in {Lower(simple.lines[simple.idx])} : SimpleBoundaryIsControl(low)]_vars

\* the text has no whitespace at its ends and no run of whitespace
Normalized(t) == t = Trim(CollapseWs(t))

\* the line was appended to the title
AppendedTo(title, title2, line) ==
  \/ title = "" /\ title2 = line
  \/ title2 = title \o " " \o line

\* one step of a parser on a non-empty line, cap and title before the step
\* and cap2 and title2 after it: a title marker line starts the capture; while
\* the capture is active a line that is neither a title marker nor a
\* submission-date line is appended to the title and the capture stays
\* active, and the submission-date line ends it with the title normalized
TitleCaptureStep(cap, cap2, title, title2, line, isMarker, isDate) ==
  /\ isMarker => cap2
  /\ cap /\ ~isMarker /\ ~isDate => cap2 /\ AppendedTo(title, title2, line)
  /\ cap /\ ~isMarker /\ isDate => ~cap2 /\ Normalized(title2)

\* C22: once a title marker line was read the title capture is active; while
\* it is active every non-empty line that is no submission-date line is
\* appended to the title and leaves the capture active, so that only the
\* submission-date line ends the capture, and after that line the title has
\* no whitespace at its ends and no run of whitespace
TitleCapturedUntilDate ==
  /\ [][LineStep =>
          \A low \in {Lower(lines[idx])} :
            lines[idx] # "" =>
              TitleCaptureStep(state.isCapturingTitle, state'.isCapturingTitle,
                               result.title, result'.title, lines[idx],
                               Test(low, P_titleMarker), Test(low, P_submissionDate))]_vars
  /\ [][SimpleLineStep =>
          \A low \in {Lower(simple.lines[simple.idx])} :
            simple.lines[simple.idx] # "" =>
              TitleCaptureStep(simple.isCapturingTitle, simple'.isCapturingTitle,
                               simple.result.title, simple'.result.title,
                               simple.lines[simple.idx],
                               Test(low, simpleTitleMarker), Test(low, dateRegex))]_vars

\* a keyword of one of the section headers is at the start of the line
KeywordAtStart(low, secs) ==
  \E k \in 1..Len(secs) : TestAt1(low, secs[k].atStart \o secs[k].anywhere)

\* C24: a step of the loop changes the current section only when a
\* section-boundary keyword is at the start of the line, in any case of the
\* letters; a line that holds a keyword after its first characters leaves the
\* current section as it is
TransitionOnlyAtLineStart ==
  /\ [][LineStep =>
          \A low \in {Lower(lines[idx])} :
            state'.currentSection # state.currentSection => KeywordAtStart(low, sections)]_vars
  /\ [][SimpleLineStep =>
          \A low \in {Lower(simple.lines[simple.idx])} :
            simple'.currentSection # simple.currentSection =>
              \/ KeywordAtStart(low, simpleSections)
              \/ TestAt1(low, simpleIntroduction)
              \/ TestAt1(low, simpleReferences)]_vars

\* ------------------------------------------------------------------------
\* Properties of the scalar metadata fields, on both parsers of plain text
\* ------------------------------------------------------------------------
MetaLineAlphabet ==
  <<"Présentée par: Jane Doe", "Présentée par: John Roe", "Présentée par:",
    "Université de Paris", "Présentée par: A. Université B", "Intitulé Deep Parsing">>

MaxMetaLines == 3

MetaTexts == UNION {TextsOver(MetaLineAlphabet, n) : n \in 1..MaxMetaLines}

InitMeta == CallEither(MetaTexts, {DefaultConfig})

SpecMeta == InitMeta /\ [][NextEither]_vars

\* the greatest element of a set of positive numbers, 0 for the empty set
LastOf(S) == IF S = {} THEN 0 ELSE CHOOSE k \in S : \A q \in S : k >= q

\* every line is handled in meta state outside a title: none is a section
\* header, a Références line or a title marker
IsMetaInput(ls) ==
  \A i \in 1..Len(ls) :
    \A low \in {Lower(ls[i])} :
      /\ BoundaryNames(low) = {}
      /\ SimpleBoundaryNames(low) = {}
      /\ ~Test(low, P_titleMarker)

\* the lines that the matcher of entry k of the pattern list matches
MatchingLines(ls, pats, k) == {i \in 1..Len(ls) : Test(Lower(ls[i]), pats[k].pattern)}

\* the lines at which parseMetadataLine assigns the field of entry k: the
\* first entry of the list that matches the line with a non-empty value
SettingLines(ls, k) ==
  {i \in 1..Len(ls) : FirstMetadataPattern(ls[i], Lower(ls[i])) = k}

\* the lines at which the else-if chain of utils/thesisParser.ts assigns the
\* field of entry k: the first entry of the chain that matches the line
SimpleSettingLines(ls, k) == {i \in 1..Len(ls) : FirstSimplePattern(Lower(ls[i])) = k}

\* the value of the field of entry k taken from the line at index last: the
\* capture with the transform of the field, "" when there is no such line
FieldFrom(ls, pats, k, last) ==
  IF last = 0 THEN ""
  ELSE applyTransform(pats[k].transform,
                      Trim(SubSeq(ls[last],
                                  SearchFrom(Lower(ls[last]), 1, pats[k].pattern).to,
                                  Len(ls[last]))))

\* every scalar field of the document r holds the value of the last line of
\* the set chosen by from
FieldsFromLast(ls, pats, r, from(_, _)) ==
  \A k \in 1..Len(pats) : r[pats[k].field] = FieldFrom(ls, pats, k, LastOf(from(ls, k)))

MatchingMain(ls, k) == MatchingLines(ls, metadataPatterns, k)

MatchingSimple(ls, k) == MatchingLines(ls, simplePatterns, k)

\* the text starts with a title marker line and has no submission-date line
IsTitleInput(ls) ==
  /\ Len(ls) >= 1
  /\ Test(Lower(ls[1]), P_titleMarker)
  /\ \A i \in 1..Len(ls) :
       \A low \in {Lower(ls[i])} :
         /\ ls[i] # ""
         /\ ~Test(low, P_submissionDate)
         /\ BoundaryNames(low) = {}
         /\ SimpleBoundaryNames(low) = {}

\* what a line adds to the title: the line, without the marker when it has one
TitlePart(line, low) ==
  IF Test(low, P_titleMarker) THEN Trim(RemoveFirst(line, low, P_titleMarker)) ELSE line

\* the title of a title input: the parts of its lines in order
TitleOf(ls) == Join([i \in 1..Len(ls) |-> TitlePart(ls[i], Lower(ls[i]))], " ")

\* C23 (as amended): after a parse of lines handled in meta state, every
\* scalar field holds the value, with the transform of the field, captured
\* from the last line that assigned it (the last line whose first matcher of
\* the list is the matcher of the field, with a non-empty capture in the
\* ParseResult parser), and is empty when no line did; the title of a text
\* that starts the title is the parts of its lines in order, joined by a space
LastAssignmentWins ==
  /\ pc = "done" /\ IsMetaInput(lines) =>
       FieldsFromLast(lines, metadataPatterns, result, SettingLines)
  /\ simple.pc = "done" /\ IsMetaInput(simple.lines) =>
       FieldsFromLast(simple.lines, simplePatterns, simple.result, SimpleSettingLines)
  /\ pc = "done" /\ IsTitleInput(lines) => result.title = TitleOf(lines)
  /\ simple.pc = "done" /\ IsTitleInput(simple.lines) =>
       Trim(simple.result.title) = TitleOf(simple.lines)

\* C23 (as stated): after a parse of lines handled in meta state, every
\* scalar field holds the value captured from the last line that matches the
\* matcher of the field
LastMatchWins ==
  /\ pc = "done" /\ IsMetaInput(lines) =>
       FieldsFromLast(lines, metadataPatterns, result, MatchingMain)
  /\ simple.pc = "done" /\ IsMetaInput(simple.lines) =>
       FieldsFromLast(simple.lines, simplePatterns, simple.result, MatchingSimple)

\* C23 witness: the ParseResult parser returned the author of the second of
\* two author lines, the third author line having no value
LastAssignmentWinsWitness ==
  /\ pc = "done"
  /\ textContent = "Présentée par: Jane Doe\nPrésentée par: John Roe\nPrésentée par:"
  /\ result.author = "John Roe"

\* ------------------------------------------------------------------------
\* parseHtmlThesis with academic numbering (htmlParser.ts): the loop over the
\* lines of the body text.  The document is dom, the child elements of body;
\* its elements have no class and no id attribute and its head is empty, so
\* author, acknowledgments and bibliography stay undefined.  thesis holds
\* the locals of the call
\* ------------------------------------------------------------------------
DigitChars == {"0","1","2","3","4","5","6","7","8","9"}

\* [\d\.]
DigitDot == DigitChars \cup {"."}

\* [A-Z] and [a-z]
AsciiUpper == {UpperChars[k] : k \in 1..26}

AsciiLower == {LowerChars[k] : k \in 1..26}

\* the character at position i of t is one of cs
CharIn(t, i, cs) == i >= 1 /\ i <= Len(t) /\ Ch(t, i) \in cs

\* the texts that (I{1,3}V?|IV|VI{0,3}|IX|X{1,3}) matches
RomanNumerals ==
  {"I", "II", "III", "IV", "IIV", "IIIV", "V", "VI", "VII", "VIII", "IX", "X", "XX", "XXX"}

\* the patterns of isAcademicHeading that the i flag or plain literals express
academicWords == << <<Lit("chapter"), WsP, Digits>>, <<Lit("chapitre"), WsP, Digits>> >>

\* academicPatterns.some(pattern => pattern.test(t)) for the trimmed line t;
\* e is the end of the digits at the start of t
academicShape(t, e) ==
  \/ \E r \in RomanNumerals : Here(t, 1, r \o ".") /\ CharIn(t, Len(r) + 2, DigitDot)
  \/ e > 1 /\ CharIn(t, e, {"."}) /\ CharIn(t, e + 1, DigitDot)
  \/ TestAt1(Lower(t), academicWords)
  \/ /\ CharIn(t, 1, AsciiUpper)
     /\ WsEnd(t, RunEnd(t, 2, AsciiLower)) > RunEnd(t, 2, AsciiLower)
     /\ CharIn(t, WsEnd(t, RunEnd(t, 2, AsciiLower)), DigitChars)
  \/ e > 1 /\ CharIn(t, e, {"."}) /\ CharIn(t, WsEnd(t, e + 1), AsciiUpper)

MaxHeadingLength == 200

isAcademicHeading(line) ==
  academicShape(Trim(line), DigitEnd(Trim(line), 1)) /\ Len(line) < MaxHeadingLength

\* subPatterns.some(pattern => pattern.test(t)) for the trimmed line t; e is
\* the end of the digits at the start of t and f the end of the digits and
\* dots after the first dot
subShape(t, e, f) ==
  \/ /\ e > 1 /\ CharIn(t, e, {"."})
     /\ \E p \in (e + 2)..(f - 2) : Ch(t, p) = "."
  \/ CharIn(t, 1, AsciiLower) /\ CharIn(t, 2, {")"})
  \/ CharIn(t, 1, AsciiUpper) /\ CharIn(t, 2, {"."})
  \/ CharIn(t, 1, {"·"}) /\ CharIn(t, 2, {" ", "\t", "\n", "\r"})
  \/ CharIn(t, 1, {"-"}) /\ CharIn(t, 2, {" ", "\t", "\n", "\r"})

MinSubHeadingLength == 10

MaxSubHeadingLength == 150

isSubHeading(line) ==
  /\ subShape(Trim(line), DigitEnd(Trim(line), 1),
              RunEnd(Trim(line), DigitEnd(Trim(line), 1) + 1, DigitDot))
  /\ Len(line) > MinSubHeadingLength
  /\ Len(line) < MaxSubHeadingLength

tablePatterns ==
  << <<Lit("le tableau"), WsP, Digits>>, <<Lit("table"), WsP, Digits>>,
     <<Lit("tableau"), WsP, Digits>>, <<Lit("figure"), WsP, Digits>> >>

isTableReference(line) == Test(Lower(line), tablePatterns)

\* replace(/^[...]+/, ''): s without the run of characters of cs at its start
StripRun(s, cs) == SubSeq(s, RunEnd(s, 1, cs), Len(s))

\* replace(/^x\s*/, '') for a first character of cs followed by mark, mark
\* being "" when no character has to follow
StripMark(s, cs, mark) ==
  IF CharIn(s, 1, cs) /\ Here(s, 2, mark)
  THEN SubSeq(s, WsEnd(s, 2 + Len(mark)), Len(s))
  ELSE s

cleanAcademicTitle(title) ==
  Trim(StripMark(StripMark(
         StripMark(StripMark(StripRun(StripRun(title, DigitDot \cup {" ", "\t", "\n", "\r"}),
                                      {"I", "V", "X", ".", " ", "\t", "\n", "\r"}),
                             AsciiLower, ")"),
                   AsciiUpper, "."),
         {"·"}, ""), {"-"}, ""))

HeadingTags == {"h1", "h2", "h3", "h4", "h5", "h6"}

\* parseInt(tag.charAt(1))
Level(tag) == CHOOSE n \in 1..6 : tag = "h" \o ToString(n)

\* the indices of the elements that querySelectorAll(selector) returns
Indices(nodes, tags) == {k \in 1..Len(nodes) : nodes[k].tag \in tags}

\* the first index at or after k that is in S, stop when there is none
FirstFrom(S, k, stop) ==
  IF \E q \in S : q >= k THEN CHOOSE q \in S : q >= k /\ \A r \in S : r >= k => q <= r
  ELSE stop

\* what a sibling adds to the content built by extractContentAfterElement
siblingText(node) ==
  IF node.tag \in {"p", "div", "section"} /\ cleanText(textContentOf(node)) # ""
  THEN cleanText(textContentOf(node)) \o "\n\n"
  ELSE ""

\* extractContentAfterElement(nodes[k]): the siblings up to the next heading
\* of the same or a higher level
extractContentAfterElement(nodes, k) ==
  Trim(Concat([j \in 1..(FirstFrom({q \in Indices(nodes, HeadingTags) :
                                       Level(nodes[q].tag) <= Level(nodes[k].tag)},
                                    k + 1, Len(nodes) + 1) - k - 1) |->
                 siblingText(nodes[k + j])]))

\* extractBodyContent of htmlParser.ts
bodyContent(nodes) ==
  Trim(Concat([k \in 1..Len(removeNonContent(nodes)) |->
                 paragraphText(removeNonContent(nodes)[k])]))

\* doc.body.textContent
bodyTextOf(nodes) == Concat([k \in 1..Len(nodes) |-> textContentOf(nodes[k])])

\* an optional field of ParsedThesis: the empty sequence when it is undefined
Undefined == <<>>

Defined(value) == <<value>>

\* result.title: the text of the first h1, undefined when the document has none
titleOf(nodes) ==
  IF Indices(nodes, {"h1"}) = {} THEN Undefined
  ELSE Defined(cleanText(textContentOf(nodes[FirstFrom(Indices(nodes, {"h1"}), 1, 0)])))

MaxAbstractSource == 2000

\* result.abstract: findElementByText returns the html element when the text
\* of the document holds one of the terms, undefined otherwise
abstractOf(text) ==
  IF (Contains(Lower(text), "abstract") \/ Contains(Lower(text), "summary"))
     /\ Len(text) < MaxAbstractSource
  THEN Defined(cleanText(text)) ELSE Undefined

RECURSIVE Ordered(_)
\* the elements of a set of positive numbers in increasing order
Ordered(S) == IF S = {} THEN <<>> ELSE <<FirstOf(S)>> \o Ordered(S \ {FirstOf(S)})

\* result.tables: one entry per table element, titled by its position
tablesOf(nodes) ==
  [j \in 1..Cardinality(Indices(nodes, {"table"})) |->
     [title |-> "Table " \o ToString(j), html |-> nodes[Ordered(Indices(nodes, {"table"}))[j]]]]

\* result.tables.filter(...): the tables whose title names chapter n
tablesOfChapter(tables, n) ==
  SelectSeq(tables, LAMBDA table :
                      \/ Contains(Lower(table.title), "tableau " \o ToString(n))
                      \/ Contains(Lower(table.title), "table " \o ToString(n)))

\* the locals before the loop
thesisLocals(nodes) ==
  [pc |-> "loop", lines |-> lineStream(bodyTextOf(nodes)), i |-> 1,
   currentChapter |-> Null, currentSection |-> Null, chapterCounter |-> 0,
   result |-> [title |-> titleOf(nodes), abstract |-> abstractOf(bodyTextOf(nodes)),
               chapters |-> <<>>, tables |-> tablesOf(nodes), images |-> <<>>]]

\* the chapter without the section, as if the push was forgotten
withSectionDropped(chapter, section) == chapter

\* currentChapter.sections.push(currentSection), when a section is open
withSection(chapter, section) ==
  IF section # Null THEN [chapter EXCEPT !.sections = Append(@, section)] ELSE chapter

\* the first line at or after i that is a heading or a sub-heading
contentEnd(ls, i) ==
  FirstFrom({k \in 1..Len(ls) : isAcademicHeading(ls[k]) \/ isSubHeading(ls[k])},
            i, Len(ls) + 1)

\* the content collected by the inner loop from line i up to line e - 1
contentOfLines(ls, i, e) ==
  Trim(Concat([k \in 1..(e - i) |->
                 IF isTableReference(ls[i + k - 1]) THEN "" ELSE ls[i + k - 1] \o "\n\n"]))

\* the branch of an academic heading; e is the end of its content
academicStep(t, line, e) ==
  [t EXCEPT
     !.result.chapters =
        IF t.currentChapter # Null
        THEN Append(@, withSection(t.currentChapter, t.currentSection))
        ELSE @,
     !.chapterCounter = @ + 1,
     !.currentChapter =
        [title |-> cleanAcademicTitle(line),
         content |-> contentOfLines(t.lines, t.i + 1, e),
         sections |-> <<>>,
         tables |-> tablesOfChapter(t.result.tables, t.chapterCounter + 1),
         images |-> <<>>],
     !.currentSection = Null,
     !.i = e]

\* the branch of a sub-heading while a chapter is open
subHeadingStep(t, line, e) ==
  [t EXCEPT
     !.currentChapter = withSection(@, t.currentSection),
     !.currentSection = [title |-> cleanAcademicTitle(line),
                         content |-> contentOfLines(t.lines, t.i + 1, e)],
     !.i = e]

\* one iteration of the while loop
thesisStep(t, line) ==
  IF isAcademicHeading(line) THEN academicStep(t, line, contentEnd(t.lines, t.i + 1))
  ELSE IF isSubHeading(line) /\ t.currentChapter # Null
  THEN subHeadingStep(t, line, contentEnd(t.lines, t.i + 1))
  ELSE [t EXCEPT !.i = @ + 1]

\* the last chapter and section are added
closeLast(t) ==
  IF t.currentChapter # Null
  THEN [t EXCEPT !.result.chapters = Append(@, withSection(t.currentChapter, t.currentSection)),
                 !.currentChapter = withSection(@, t.currentSection)]
  ELSE t

\* the chapter made from the heading at index q
headingChapter(nodes, q) ==
  [title |-> cleanText(textContentOf(nodes[q])),
   content |-> extractContentAfterElement(nodes, q),
   sections |-> <<>>]

\* the headings of the document that have a text other than the title
namedHeadings(nodes, title) ==
  {q \in Indices(nodes, HeadingTags) :
     /\ cleanText(textContentOf(nodes[q])) # ""
     /\ Defined(cleanText(textContentOf(nodes[q]))) # title}

\* the chapters made from the headings of the document
headingChapters(nodes, title) ==
  [j \in 1..Cardinality(namedHeadings(nodes, title)) |->
     headingChapter(nodes, Ordered(namedHeadings(nodes, title))[j])]

\* the chapter that wraps the body when there is no other
genericChapters(content) ==
  IF content # ""
  THEN <<[title |-> "Main Content", content |-> content, sections |-> <<>>]>>
  ELSE <<>>

\* the chapters when the loop found none: from the headings, else the body
fallbackChapters(byHeading, nodes) ==
  IF byHeading # <<>> THEN byHeading ELSE genericChapters(bodyContent(nodes))

\* the result after the loop
thesisResult(t, nodes) ==
  IF t.result.chapters # <<>> THEN t
  ELSE [t EXCEPT !.result.chapters =
                    fallbackChapters(headingChapters(nodes, t.result.title), nodes)]

thesisFrame ==
  <<textContent, pc, lineVars, htmlVars, simple, calls, dom, clone, domText, legacy, upload>>

\* the queries on the document and the lines of the body text
ThesisEnter ==
  /\ thesis.pc = "start"
  /\ thesis' = thesisLocals(dom)
  /\ UNCHANGED thesisFrame

\* one iteration of the while loop
ThesisLoopStep ==
  /\ thesis.pc = "loop"
  /\ thesis.i <= Len(thesis.lines)
  /\ thesis' = thesisStep(thesis, thesis.lines[thesis.i])
  /\ UNCHANGED thesisFrame

\* after the loop: the last chapter and section, the fallbacks, the return
ThesisReturn ==
  /\ thesis.pc = "loop"
  /\ thesis.i > Len(thesis.lines)
  /\ thesis' = [thesisResult(closeLast(thesis), dom) EXCEPT !.pc = "done"]
  /\ UNCHANGED thesisFrame

NextThesis == ThesisEnter \/ ThesisLoopStep \/ ThesisReturn

ThesisNodeAlphabet ==
  <<Node("h2", "1. Introduction\n"), Node("h2", "2. Methods\n"),
    Node("h3", "A. Background of study\n"), Node("h3", "B. Related work here\n"),
    Node("p", "Some text.\n")>>

MaxThesisNodes == 4

RECURSIVE BodiesOver(_, _)
\* the bodies of n child elements of the alphabet
BodiesOver(alphabet, n) ==
  IF n = 0 THEN {<<>>}
  ELSE {Append(b, alphabet[k]) : b \in BodiesOver(alphabet, n - 1), k \in 1..Len(alphabet)}

ThesisBodies == UNION {BodiesOver(ThesisNodeAlphabet, n) : n \in 0..MaxThesisNodes}

\* a call of parseHtmlThesis on the document
InitThesisWith(bodies) ==
  /\ textContent = ""
  /\ config = DefaultConfig
  /\ faults = {}
  /\ pc = "idle"
  /\ Start
  /\ simple = [pc |-> "idle"]
  /\ calls = <<>>
  /\ clone = <<>>
  /\ domText = ""
  /\ legacy = Idle
  /\ upload = [pc |-> "idle"]
  /\ dom \in bodies
  /\ thesis = [pc |-> "start"]

InitThesis == InitThesisWith(ThesisBodies)

SpecThesis == InitThesis /\ [][NextThesis]_vars

\* the indices of the lines that open a chapter
AcademicIndices(ls) == {k \in 1..Len(ls) : isAcademicHeading(ls[k])}

\* the indices of the lines that open a section of the chapter opened at h,
\* the next chapter being opened at next
SubHeadingIndices(ls, h, next) == {k \in (h + 1)..(next - 1) : isSubHeading(ls[k])}

\* the lines that follow the heading at k up to the next heading of a
\* chapter or a section, without the table references, one paragraph each
TextAfter(ls, k) ==
  Join(SelectSeq(SubSeq(ls, k + 1,
                        FirstFrom(AcademicIndices(ls) \cup SubHeadingIndices(ls, k, Len(ls) + 1),
                                  k + 1, Len(ls) + 1) - 1),
                 LAMBDA l : ~isTableReference(l)),
       "\n\n")

\* the section opened by the line at k
SectionAt(ls, k) == [title |-> cleanAcademicTitle(ls[k]), content |-> TextAfter(ls, k)]

\* the sections opened while the chapter opened at h was open
SectionsBetween(ls, h, next) ==
  [j \in 1..Cardinality(SubHeadingIndices(ls, h, next)) |->
     SectionAt(ls, Ordered(SubHeadingIndices(ls, h, next))[j])]

\* the sections of the j-th chapter opened by the lines
SectionsOfChapter(ls, j) ==
  SectionsBetween(ls, Ordered(AcademicIndices(ls))[j],
                  IF j < Cardinality(AcademicIndices(ls))
                  THEN Ordered(AcademicIndices(ls))[j + 1] ELSE Len(ls) + 1)

\* C25: in parseHtmlThesis with academic numbering a section is open only
\* while a chapter is open, and when the lines open a chapter the returned
\* document has one chapter per heading line, whose sections are the sections
\* opened by the sub-heading lines read while that chapter was open, once
\* each and in the order of the lines, the last one included: none is with a
\* later chapter and none is lost
SectionsStayInTheirChapter ==
  /\ thesis.pc \in {"loop", "done"} /\ thesis.currentSection # Null =>
       thesis.currentChapter # Null
  /\ thesis.pc = "done" /\ AcademicIndices(thesis.lines) # {} =>
       /\ Len(thesis.result.chapters) = Cardinality(AcademicIndices(thesis.lines))
       /\ \A j \in 1..Len(thesis.result.chapters) :
            thesis.result.chapters[j].sections = SectionsOfChapter(thesis.lines, j)

\* C25 witness: two chapters with one section each, the section of the second
\* one still open at the end of the lines
SectionsStayInTheirChapterWitness ==
  /\ thesis.pc = "done"
  /\ thesis.lines = <<"1. Introduction", "A. Background of study",
                      "2. Methods", "B. Related work here">>
  /\ Len(thesis.result.chapters) = 2
  /\ thesis.result.chapters[1].sections = <<[title |-> "Background of study", content |-> ""]>>
  /\ thesis.result.chapters[2].sections = <<[title |-> "Related work here", content |-> ""]>>

\* ---------------------------------------------------------------------
\* parseHtmlThesis walking the headings (h1 and h2 open a chapter, h3 and
\* h4 a section). The document is the sequence of the children of the
\* body; extractContentAfterElement is the one defined above, the code of
\* the two variants being the same.
\* ---------------------------------------------------------------------

ChapterTags == {"h1", "h2"}

SectionTags == {"h3", "h4"}

\* the locals before headings.forEach
walkLocals(nodes) ==
  [pc |-> "walk", headings |-> Ordered(Indices(nodes, HeadingTags)), h |-> 1,
   currentChapter |-> Null, chapterCounter |-> 0,
   result |-> [title |-> titleOf(nodes), chapters |-> <<>>]]

\* if (!headingText || headingText === result.title) return
walkSkips(t, nodes, q) ==
  \/ cleanText(textContentOf(nodes[q])) = ""
  \/ Defined(cleanText(textContentOf(nodes[q]))) = t.result.title

\* the branch of an h1 or h2 heading
walkChapter(t, nodes, q) ==
  [t EXCEPT
     !.result.chapters = IF t.currentChapter # Null THEN Append(@, t.currentChapter) ELSE @,
     !.chapterCounter = @ + 1,
     !.currentChapter = headingChapter(nodes, q)]

\* the branch of an h3 or h4 heading
walkSection(t, nodes, q) ==
  IF t.currentChapter # Null
  THEN [t EXCEPT !.currentChapter.sections =
                    Append(@, [title |-> cleanText(textContentOf(nodes[q])),
                               content |-> extractContentAfterElement(nodes, q)])]
  ELSE t

\* the callback of headings.forEach on the heading at index q
walkHeading(t, nodes, q) ==
  IF walkSkips(t, nodes, q) THEN t
  ELSE IF nodes[q].tag \in ChapterTags THEN walkChapter(t, nodes, q)
  ELSE IF nodes[q].tag \in SectionTags THEN walkSection(t, nodes, q)
  ELSE t

\* the contribution of one node to the content built by extractBodyContent
walkParagraphText(node) ==
  IF node.tag \in {"p", "div"} /\ Len(cleanText(textContentOf(node))) > MinParagraphLength
  THEN cleanText(textContentOf(node)) \o "\n\n"
  ELSE ""

\* extractBodyContent: the substantial paragraphs of the body
walkBodyContent(nodes) ==
  Trim(Concat([k \in 1..Len(SelectSeq(nodes, LAMBDA n : n.tag \notin {"script", "style"})) |->
                 walkParagraphText(SelectSeq(nodes, LAMBDA n : n.tag \notin {"script", "style"})[k])]))

\* the chapter that wraps the body when the headings gave none
walkGeneric(content) ==
  IF content # "" THEN <<[title |-> "Main Content", content |-> content]>> ELSE <<>>

\* the result after the walk: the last chapter, else the generic one
walkResult(t, nodes) ==
  IF t.currentChapter # Null
  THEN [t EXCEPT !.result.chapters = Append(@, t.currentChapter)]
  ELSE IF t.result.chapters = <<>>
  THEN [t EXCEPT !.result.chapters = walkGeneric(walkBodyContent(nodes))]
  ELSE t

\* the queries on the document before the walk
WalkEnter ==
  /\ thesis.pc = "walkStart"
  /\ thesis' = walkLocals(dom)
  /\ UNCHANGED thesisFrame

\* one call of the callback of headings.forEach
WalkHeading ==
  /\ thesis.pc = "walk"
  /\ thesis.h <= Len(thesis.headings)
  /\ thesis' = [walkHeading(thesis, dom, thesis.headings[thesis.h]) EXCEPT !.h = @ + 1]
  /\ UNCHANGED thesisFrame

\* after the walk: the last chapter, the fallback, the return
WalkReturn ==
  /\ thesis.pc = "walk"
  /\ thesis.h > Len(thesis.headings)
  /\ thesis' = [walkResult(thesis, dom) EXCEPT !.pc = "walkDone"]
  /\ UNCHANGED thesisFrame

NextWalk == WalkEnter \/ WalkHeading \/ WalkReturn

WalkNodeAlphabet ==
  <<Node("h1", "Part One"), Node("h2", "Chapter Two"), Node("h3", "Section A"),
    Node("h4", "Detail B"), Node("p", "Alpha text."), Node("p", "Beta text.")>>

MaxWalkNodes == 4

\* the children of the body after the title heading, if there is one
WalkBodies ==
  UNION {BodiesOver(WalkNodeAlphabet, n) : n \in 0..MaxWalkNodes}

\* a call of parseHtmlThesis on a document with or without a title heading
InitWalk ==
  /\ textContent = ""
  /\ config = DefaultConfig
  /\ faults = {}
  /\ pc = "idle"
  /\ Start
  /\ simple = [pc |-> "idle"]
  /\ calls = <<>>
  /\ clone = <<>>
  /\ domText = ""
  /\ legacy = Idle
  /\ upload = [pc |-> "idle"]
  /\ \E titled \in BOOLEAN, body \in WalkBodies :
       dom = IF titled THEN <<Node("h1", "My Thesis")>> \o body ELSE body
  /\ thesis = [pc |-> "walkStart"]

SpecWalk == InitWalk /\ [][NextWalk]_vars


\* the headings for which the walk opens a chapter
WalkChapterHeadings(nodes) ==
  {q \in Indices(nodes, ChapterTags) :
     /\ cleanText(textContentOf(nodes[q])) # ""
     /\ Defined(cleanText(textContentOf(nodes[q]))) # titleOf(nodes)}

\* the headings for which the walk adds a section to the chapter opened at
\* q, the next chapter being opened at next
WalkSectionHeadings(nodes, q, next) ==
  {s \in Indices(nodes, SectionTags) :
     /\ q < s /\ s < next
     /\ cleanText(textContentOf(nodes[s])) # ""
     /\ Defined(cleanText(textContentOf(nodes[s]))) # titleOf(nodes)}

\* the text of the paragraphs located after the heading at q and before e
TextBetween(nodes, q, e) ==
  Trim(Concat([j \in 1..(e - q - 1) |-> siblingText(nodes[q + j])]))

\* the content is made of text located after the heading at q and before
\* the element at limit, and of nothing else
OnlyTextBetween(content, nodes, q, limit) ==
  \E e \in (q + 1)..limit : content = TextBetween(nodes, q, e)

\* the next heading after q that is of the rank of the heading at q or higher
NextOfRank(nodes, q) ==
  FirstFrom({r \in Indices(nodes, HeadingTags) : Level(nodes[r].tag) <= Level(nodes[q].tag)},
            q + 1, Len(nodes) + 1)

\* the j-th chapter of the result holds only text located between the
\* heading at q and the next chapter heading at next, and so do its sections
\* up to the next heading of their own or a higher rank
ChapterWithinBounds(chapter, nodes, q, next) ==
  /\ OnlyTextBetween(chapter.content, nodes, q, next)
  /\ Len(chapter.sections) = Cardinality(WalkSectionHeadings(nodes, q, next))
  /\ \A s \in 1..Len(chapter.sections) :
       OnlyTextBetween(chapter.sections[s].content, nodes,
                       Ordered(WalkSectionHeadings(nodes, q, next))[s],
                       NextOfRank(nodes, Ordered(WalkSectionHeadings(nodes, q, next))[s]))

\* C26: when the walk over the headings returns chapters made from
\* headings, there is one chapter per chapter heading, the content of each
\* holds only text located between its heading and the next chapter heading,
\* and the content of each of its sections only text located between the
\* heading of the section and the next heading of its own or a higher rank
ContentEndsAtNextChapterHeading ==
  thesis.pc = "walkDone" /\ WalkChapterHeadings(dom) # {} =>
    /\ Len(thesis.result.chapters) = Cardinality(WalkChapterHeadings(dom))
    /\ \A j \in 1..Len(thesis.result.chapters) :
         ChapterWithinBounds(thesis.result.chapters[j], dom,
                             Ordered(WalkChapterHeadings(dom))[j],
                             IF j < Cardinality(WalkChapterHeadings(dom))
                             THEN Ordered(WalkChapterHeadings(dom))[j + 1]
                             ELSE Len(dom) + 1)

\* ---------------------------------------------------------------------
\* Properties of the body state of the parser of utils/thesisParser.ts
\* ---------------------------------------------------------------------

\* the line at the loop reaches the body case of the switch: the parser is
\* in body state, the line is no section boundary and the title capture does
\* not take it
ProcessedInBody(low) ==
  /\ simple.currentSection = "body"
  /\ SimpleBoundaryNames(low) = {}
  /\ ~Test(low, simpleTitleMarker)
  /\ simple.isCapturingTitle => Test(low, dateRegex)

\* after the step the line is the title of the open chapter or the last line
\* of the content buffered for it
KeptByOpenChapter(line) ==
  /\ simple'.currentChapter # Null
  /\ \/ simple'.currentChapter.title = line
     \/ simple'.contentBuffer = simple.contentBuffer \o line \o "\n"

\* C27: in the parser of utils/thesisParser.ts a chapter is open whenever
\* the loop is in body state, and every line that reaches the body case
\* becomes the title of the open chapter or is buffered for the open chapter
BodyStateHasOpenChapter ==
  /\ [](simple.pc = "loop" /\ simple.currentSection = "body" =>
          simple.currentChapter # Null)
  /\ [][SimpleLineStep /\ simple.lines[simple.idx] # "" =>
          \A low \in {Lower(simple.lines[simple.idx])} :
             ProcessedInBody(low) => KeptByOpenChapter(simple.lines[simple.idx])]_vars

\* ---------------------------------------------------------------------
\* Properties of strict mode
\* ---------------------------------------------------------------------

\* a document with a university line, a title marker line closed by the date
\* line, an author line, a jury line and a body that starts with
\* I. Introduction followed by a chapter heading and text
CompleteExample == FrontMatter \o JuryLine \o BodyExample

\* C28: a strict-mode success is reachable: parseThesisContent with
\* strictMode = true on the complete document returns success with at least
\* one chapter
StrictSuccessOnCompleteDocument ==
  pc = "done" /\ config.strictMode /\ textContent = CompleteExample =>
    ret.success /\ Len(ret.data.chapters) >= 1

\* ---------------------------------------------------------------------
\* FileUpload (components/FileUpload.tsx) mounted by Index (pages/Index.tsx):
\* one step per event handler, promise continuation and timer callback. A
\* file is the document its text parses to.
\* ---------------------------------------------------------------------

RECURSIVE walkAll(_, _)
\* headings.forEach from the heading t.h on, then the end of the function
walkAll(t, nodes) ==
  IF t.h > Len(t.headings) THEN walkResult(t, nodes)
  ELSE walkAll([walkHeading(t, nodes, t.headings[t.h]) EXCEPT !.h = @ + 1], nodes)

\* parsedData once parsedData.rawHtml = htmlContent is done
parsedDataOf(file) ==
  [title |-> walkAll(walkLocals(file), file).result.title,
   chapters |-> walkAll(walkLocals(file), file).result.chapters,
   rawHtml |-> file]

ProgressStep == 10

ProgressCeiling == 90

ProgressDone == 100

\* the states of Index and of FileUpload when the page is mounted
uploadMounted ==
  [pc |-> "mounted", isProcessing |-> FALSE, uploadProgress |-> 0, timers |-> {},
   started |-> 0, file |-> <<>>, awaiting |-> <<>>, timeout |-> <<>>,
   delivered |-> <<>>, thesisData |-> Null, showPreview |-> FALSE]

\* processFile up to await file.text(); the call is the started-th one and
\* its interval is named after it
processFileStart(u, file) ==
  [u EXCEPT !.isProcessing = TRUE,
            !.uploadProgress = 0,
            !.started = @ + 1,
            !.timers = @ \cup {u.started + 1},
            !.file = file,
            !.awaiting = <<[id |-> u.started + 1, file |-> file]>>]

\* the callback of setInterval for the interval t
progressTick(u, t) ==
  IF u.uploadProgress >= ProgressCeiling
  THEN [u EXCEPT !.timers = @ \ {t}]
  ELSE [u EXCEPT !.uploadProgress = @ + ProgressStep]

\* processFile after the await when nothing throws, parsedData being the
\* parsed document with its raw HTML
processFileParsed(u, call, parsedData) ==
  [u EXCEPT !.timers = @ \ {call.id},
            !.uploadProgress = ProgressDone,
            !.timeout = <<parsedData>>,
            !.awaiting = <<>>]

\* the catch block of processFile
processFileCatch(u) ==
  [u EXCEPT !.isProcessing = FALSE, !.uploadProgress = 0, !.awaiting = <<>>]

\* handleFileProcessed of Index
handleFileProcessed(u, data) ==
  [u EXCEPT !.thesisData = data, !.showPreview = TRUE]

\* onFileProcessed is not called at all
onFileProcessedSkipped(u, data) == u

\* onFileProcessed(data): the call is recorded and handled by Index
onFileProcessed(u, data) ==
  [handleFileProcessed(u, data) EXCEPT !.delivered = Append(@, data)]

\* the callback of setTimeout
processFileDone(u, data) ==
  [onFileProcessed(u, data) EXCEPT !.isProcessing = FALSE, !.timeout = <<>>]

uploadFrame ==
  <<textContent, pc, lineVars, htmlVars, simple, calls, dom, clone, domText, legacy, thesis>>

MaxUploads == 3

UploadFiles ==
  {<<Node("h2", "Chapter Two"), Node("p", "Alpha text.")>>,
   <<Node("p", "A paragraph of substantial text.")>>}

\* what parseHtmlThesis and the assignment of rawHtml make of each file
ParsedData == [file \in UploadFiles |-> parsedDataOf(file)]

\* onDrop with an HTML file while the drop zone is rendered
UploadDrop ==
  /\ upload.pc = "mounted"
  /\ ~upload.isProcessing
  /\ ~upload.showPreview
  /\ upload.started < MaxUploads
  /\ \E file \in UploadFiles : upload' = processFileStart(upload, file)
  /\ UNCHANGED uploadFrame

\* an interval fires while FileUpload is mounted
UploadTick ==
  /\ upload.pc = "mounted"
  /\ ~upload.showPreview
  /\ \E t \in upload.timers : upload' = progressTick(upload, t)
  /\ UNCHANGED uploadFrame

\* file.text() resolves and parseHtmlThesis returns
UploadParsed ==
  /\ upload.pc = "mounted"
  /\ upload.awaiting # <<>>
  /\ upload' = processFileParsed(upload, upload.awaiting[1],
                                  ParsedData[upload.awaiting[1].file])
  /\ UNCHANGED uploadFrame

\* file.text() rejects or parseHtmlThesis throws
UploadFailed ==
  /\ upload.pc = "mounted"
  /\ upload.awaiting # <<>>
  /\ upload' = processFileCatch(upload)
  /\ UNCHANGED uploadFrame

\* the timeout set after a successful parse fires
UploadDone ==
  /\ upload.pc = "mounted"
  /\ upload.timeout # <<>>
  /\ upload' = processFileDone(upload, upload.timeout[1])
  /\ UNCHANGED uploadFrame

NextUpload == UploadDrop \/ UploadTick \/ UploadParsed \/ UploadFailed \/ UploadDone

\* the page as mounted, no parser having been called
InitUpload ==
  /\ textContent = ""
  /\ config = DefaultConfig
  /\ faults = {}
  /\ pc = "idle"
  /\ Start
  /\ simple = [pc |-> "idle"]
  /\ calls = <<>>
  /\ dom = <<>>
  /\ clone = <<>>
  /\ domText = ""
  /\ legacy = Idle
  /\ thesis = [pc |-> "idle"]
  /\ upload = uploadMounted

\* the promise of file.text() settles and a timeout that was set fires
UploadFairness ==
  /\ WF_vars(UploadParsed \/ UploadFailed)
  /\ WF_vars(UploadDone)

SpecUpload == InitUpload /\ [][NextUpload]_vars /\ UploadFairness

\* ---------------------------------------------------------------------
\* Properties of FileUpload
\* ---------------------------------------------------------------------

\* the step sets isProcessing back to false
ProcessingEnds == upload.isProcessing /\ ~upload'.isProcessing

\* the step calls onFileProcessed once, with the data parsed from the file of
\* the running call of processFile
DeliversOnce ==
  upload'.delivered = Append(upload.delivered, ParsedData[upload.file])

\* C29: once isProcessing is true it becomes false again; the step that sets
\* it back after a successful parse is the one that calls onFileProcessed,
\* once and with the data parsed from the file, the step that sets it back
\* after an error does not call it, and no other step calls it
ProcessingEndsAfterDelivery ==
  /\ (upload.pc = "mounted" /\ upload.isProcessing) ~> ~upload.isProcessing
  /\ [][/\ ProcessingEnds /\ upload.timeout # <<>> => DeliversOnce
        /\ ProcessingEnds /\ upload.timeout = <<>> => upload'.delivered = upload.delivered
        /\ upload'.delivered # upload.delivered => ProcessingEnds /\ upload.timeout # <<>>]_vars

\* C29 witness: the first call of processFile failed, the second one
\* succeeded and its data was handed to Index once
ProcessingEndsAfterDeliveryWitness ==
  /\ upload.pc = "mounted"
  /\ upload.started = 2
  /\ ~upload.isProcessing
  /\ upload.showPreview
  /\ Len(upload.delivered) = 1
  /\ upload.delivered[1] = upload.thesisData
  /\ upload.thesisData.chapters =
       <<[title |-> "Chapter Two", content |-> "Alpha text.", sections |-> <<>>]>>

\* C30: at most one progress interval is live, none is live once no call
\* of processFile is running, uploadProgress is within 0..100, the catch
\* block leaves uploadProgress at 0 and uploadProgress does not change while
\* nothing is being processed
OneTimerAndBoundedProgress ==
  /\ [](upload.pc = "mounted" =>
          /\ Cardinality(upload.timers) <= 1
          /\ upload.awaiting = <<>> => upload.timers = {}
          /\ upload.uploadProgress \in 0..ProgressDone)
  /\ [][/\ ProcessingEnds /\ upload.timeout = <<>> => upload'.uploadProgress = 0
        /\ ~upload.isProcessing /\ ~upload'.isProcessing =>
             upload'.uploadProgress = upload.uploadProgress]_vars

====
